---- MODULE Spec2Model ----
(***************************************************************************)
(* Workflow checkpointing for crash recovery                               *)
(* (the_app/sdk/src/autonomi/checkpoint.py).                               *)
(*                                                                         *)
(* The model covers the Checkpoint record, the in-memory and the SQLite    *)
(* backend, the Checkpointer and the CheckpointContext scope.              *)
(***************************************************************************)
EXTENDS Integers, Sequences, FiniteSets, TLC

(***************************************************************************)
(* Bounds of the model.                                                    *)
(***************************************************************************)
\* step_index ranges over 0..MaxStep
MaxStep == 1
\* number of Checkpoint objects checkpoint_start may construct in a run
MaxObjs == 2
\* the wall clock ranges over 0..MaxClock
MaxClock == 1
\* number of CheckpointContext objects
MaxCtx == 2
\* number of threads that call the Checkpointer concurrently
MaxThreads == 2
\* number of Checkpointer instances that generate workflow ids
MaxInstances == 2
\* number of generate_workflow_id calls on one instance
MaxCalls == 3

(***************************************************************************)
(* Python values.  None, str and dict are tagged so that None, "" and {}   *)
(* are three different values; a dict is its sequence of <<key, value>>    *)
(* items in insertion order.                                               *)
(***************************************************************************)
None == [t |-> "None"]
Str(s) == [t |-> "str", v |-> s]
Dict(items) == [t |-> "dict", v |-> items]

\* bool(x) for the values above: None, "" and {} are falsy
Truthy(x) ==
    CASE x.t = "None" -> FALSE
      [] x.t = "str"  -> x.v # ""
      [] x.t = "dict" -> x.v # <<>>

\* `x or y`
Or(x, y) == IF Truthy(x) THEN x ELSE y

Workflows == {"wa", "wb"}
Steps == 0..MaxStep
EmptyDict == Dict(<<>>)
InputDicts == {EmptyDict, Dict(<< <<"task", "t">> >>)}
OutputDicts == {EmptyDict, Dict(<< <<"y", "2">> >>)}
MetaArgs == {None, Dict(<< <<"m", "1">> >>)}
Messages == {"boom", ""}

\* every dict value that occurs in the model
Dicts == InputDicts \cup OutputDicts \cup (MetaArgs \ {None})

(***************************************************************************)
(* CheckpointStatus and RecoveryMode: a member is named by its Python      *)
(* name, .value is its string tag.                                         *)
(***************************************************************************)
CheckpointStatus == {"PENDING", "IN_PROGRESS", "COMPLETED", "FAILED", "RECOVERED"}

StatusValue(s) ==
    CASE s = "PENDING"     -> "pending"
      [] s = "IN_PROGRESS" -> "in_progress"
      [] s = "COMPLETED"   -> "completed"
      [] s = "FAILED"      -> "failed"
      [] s = "RECOVERED"   -> "recovered"

\* CheckpointStatus(tag): the member whose value is tag
StatusOfValue(tag) == CHOOSE s \in CheckpointStatus : StatusValue(s) = tag

RecoveryMode == {"RESUME_FROM_LAST", "RESTART_TASK", "SKIP_FAILED", "MANUAL"}

(***************************************************************************)
(* json.dumps / json.loads on the values the backend encodes.              *)
(***************************************************************************)
RECURSIVE json_items(_)
json_items(items) ==
    IF items = <<>> THEN ""
    ELSE "\"" \o items[1][1] \o "\": \"" \o items[1][2] \o "\""
         \o (IF Len(items) > 1 THEN ", " ELSE "")
         \o json_items(Tail(items))

json_dumps(x) ==
    IF x.t = "None" THEN "null" ELSE "{" \o json_items(x.v) \o "}"

json_loads(text) ==
    CHOOSE x \in Dicts \cup {None} : json_dumps(x) = text

(***************************************************************************)
(* State.                                                                  *)
(***************************************************************************)
VARIABLES
    backend,        \* Checkpointer._backend: "memory" or "sqlite"
    recovery_mode,  \* Checkpointer.recovery_mode
    now,            \* datetime.utcnow()
    heap,           \* the Checkpoint objects of the process, by reference
    allocs,         \* number of Checkpoint objects constructed so far
    checkpoints,    \* MemoryCheckpointBackend._checkpoints: id -> reference
    db,             \* the SQLite file and the connection's open transaction
    ctx,            \* the CheckpointContext objects
    saved,          \* history: id -> the checkpoint as the last returned save wrote it
    last,           \* history: the last call, its arguments and what it returned
    threads,        \* the threads that call the Checkpointer concurrently
    twin,           \* the Checkpoint objects of a second Checkpointer, on SQLite
    workflow_counter, \* self._workflow_counter of each Checkpointer instance
    issued,         \* history: what generate_workflow_id returned, per instance
    lock            \* MemoryCheckpointBackend._lock: the thread that holds it, or 0

vars == <<backend, recovery_mode, now, heap, allocs, checkpoints, db, ctx, saved, last,
          threads, twin, workflow_counter, issued, lock>>

Refs == 1..MaxObjs
CtxIds == 1..MaxCtx
Threads == 1..MaxThreads
Instances == 1..MaxInstances

\* a heap slot that holds no object
Free == [t |-> "free"]

\* a mapping with no key
Empty == [k \in {} |-> None]

\* d with the keys of S removed
Without(d, S) == [k \in DOMAIN d \ S |-> d[k]]

Max(S) == CHOOSE x \in S : \A y \in S : y <= x

(***************************************************************************)
(* Checkpoint: the dataclass; created_at and updated_at default to the     *)
(* time of construction.                                                   *)
(***************************************************************************)
Checkpoint(id, workflow_id, step_name, step_index, status, input_data, metadata) ==
    [id          |-> id,
     workflow_id |-> workflow_id,
     step_name   |-> step_name,
     step_index  |-> step_index,
     status      |-> status,
     input_data  |-> input_data,
     output_data |-> None,
     error       |-> None,
     created_at  |-> now,
     updated_at  |-> now,
     metadata    |-> metadata]

\* mutant of generate_checkpoint_id: a key that is new for every attempt
generate_checkpoint_id_per_attempt(workflow_id, step_index) ==
    workflow_id \o "_step_" \o ToString(step_index) \o "_" \o ToString(allocs)

\* mutant of generate_checkpoint_id: the step index is left out of the key
generate_checkpoint_id_workflow_only(workflow_id, step_index) ==
    workflow_id \o "_step"

\* Checkpointer.generate_checkpoint_id
generate_checkpoint_id(workflow_id, step_index) ==
    workflow_id \o "_step_" \o ToString(step_index)

(***************************************************************************)
(* MemoryCheckpointBackend: every method runs under self._lock.  The dict  *)
(* holds the caller's object itself, not a copy.                           *)
(***************************************************************************)
\* mutant of MemorySave: the time is written to created_at
MemorySave_stamps_created_at(ref, cp) ==
    /\ heap' = [heap EXCEPT ![ref] = [cp EXCEPT !.created_at = now]]
    /\ checkpoints' = (cp.id :> ref) @@ checkpoints
    /\ UNCHANGED db

\* save: the object ref, whose fields the caller has set to cp
MemorySave(ref, cp) ==
    /\ heap' = [heap EXCEPT ![ref] = [cp EXCEPT !.updated_at = now]]
    /\ checkpoints' = (cp.id :> ref) @@ checkpoints
    /\ UNCHANGED db

\* mutant of MemoryLoad: self._checkpoints[checkpoint_id] instead of .get
MemoryLoad_subscript(checkpoint_id) ==
    IF checkpoint_id \in DOMAIN checkpoints
    THEN heap[checkpoints[checkpoint_id]]
    ELSE [t |-> "KeyError"]

MemoryLoad(checkpoint_id) ==
    IF checkpoint_id \in DOMAIN checkpoints
    THEN heap[checkpoints[checkpoint_id]]
    ELSE None

\* mutant of sorted: descending order
RECURSIVE sorted_descending(_)
sorted_descending(cps) ==
    IF cps = {} THEN <<>>
    ELSE LET m == CHOOSE x \in cps : \A y \in cps : x.step_index >= y.step_index
         IN  <<m>> \o sorted_descending(cps \ {m})

\* sorted(cps, key=lambda x: x.step_index)
RECURSIVE sorted(_)
sorted(cps) ==
    IF cps = {} THEN <<>>
    ELSE LET m == CHOOSE x \in cps : \A y \in cps : x.step_index <= y.step_index
         IN  <<m>> \o sorted(cps \ {m})

MemoryList(workflow_id) ==
    sorted({cp \in {heap[checkpoints[k]] : k \in DOMAIN checkpoints} :
                cp.workflow_id = workflow_id})

MemoryGetLast(workflow_id) ==
    LET cps == MemoryList(workflow_id)
    IN  IF cps # <<>> THEN cps[Len(cps)] ELSE None

\* mutant of MemoryToDelete: only the first matching id
MemoryToDelete_first_only(workflow_id) ==
    LET S == {k \in DOMAIN checkpoints :
                 heap[checkpoints[k]].workflow_id = workflow_id}
    IN  IF S = {} THEN {} ELSE {CHOOSE k \in S : TRUE}

\* mutant of MemoryToDelete: the workflow_id is not tested
MemoryToDelete_every_workflow(workflow_id) == DOMAIN checkpoints

MemoryToDelete(workflow_id) ==
    {k \in DOMAIN checkpoints : heap[checkpoints[k]].workflow_id = workflow_id}

MemoryDelete(workflow_id) ==
    /\ checkpoints' = Without(checkpoints, MemoryToDelete(workflow_id))
    /\ UNCHANGED <<heap, db>>

\* mutant of MemoryGetIncomplete: PENDING is not tested
MemoryGetIncomplete_in_progress_only ==
    {heap[checkpoints[k]].workflow_id : k \in
        {j \in DOMAIN checkpoints : heap[checkpoints[j]].status = "IN_PROGRESS"}}

MemoryGetIncomplete ==
    {heap[checkpoints[k]].workflow_id : k \in
        {j \in DOMAIN checkpoints :
            heap[checkpoints[j]].status \in {"PENDING", "IN_PROGRESS"}}}

(***************************************************************************)
(* SQLiteCheckpointBackend.  db.disk is the committed table, keyed by the  *)
(* primary key id; db.txn is the open transaction of the thread's          *)
(* connection: the table as the connection sees it until it commits.       *)
(***************************************************************************)
NoTxn == [open |-> FALSE, view |-> Empty]

\* the table a statement of the connection reads
conn_view(d) == IF d.txn.open THEN d.txn.view ELSE d.disk

\* conn.execute of a statement that writes: it opens a transaction if none is open
execute_write(d, view) == [d EXCEPT !.txn = [open |-> TRUE, view |-> view]]

\* mutant of commit: the transaction is left open
commit_left_open(d) == d

\* conn.commit()
commit(d) == IF d.txn.open THEN [disk |-> d.txn.view, txn |-> NoTxn] ELSE d

\* the parameters save binds to the INSERT OR REPLACE statement
checkpoint_row(cp) ==
    [id          |-> cp.id,
     workflow_id |-> cp.workflow_id,
     step_name   |-> cp.step_name,
     step_index  |-> cp.step_index,
     status      |-> StatusValue(cp.status),
     input_data  |-> Str(json_dumps(cp.input_data)),
     output_data |-> IF Truthy(cp.output_data)
                     THEN Str(json_dumps(cp.output_data)) ELSE None,
     error       |-> cp.error,
     created_at  |-> cp.created_at,
     updated_at  |-> cp.updated_at,
     metadata    |-> Str(json_dumps(cp.metadata))]

\* mutant of insert_or_replace: an existing row keeps its output_data and error
insert_or_merge(view, row) ==
    IF row.id \in DOMAIN view
    THEN (row.id :> [row EXCEPT !.output_data = view[row.id].output_data,
                                !.error = view[row.id].error]) @@ view
    ELSE (row.id :> row) @@ view

\* INSERT OR REPLACE INTO checkpoints
insert_or_replace(view, row) == (row.id :> row) @@ view

SQLiteSave(ref, cp) ==
    LET c == [cp EXCEPT !.updated_at = now]
    IN  /\ heap' = [heap EXCEPT ![ref] = c]
        /\ db' = commit(execute_write(db,
                     insert_or_replace(conn_view(db), checkpoint_row(c))))
        /\ UNCHANGED checkpoints

\* _row_to_checkpoint
row_to_checkpoint(row) ==
    [id          |-> row.id,
     workflow_id |-> row.workflow_id,
     step_name   |-> row.step_name,
     step_index  |-> row.step_index,
     status      |-> StatusOfValue(row.status),
     input_data  |-> json_loads(row.input_data.v),
     output_data |-> IF Truthy(row.output_data)
                     THEN json_loads(row.output_data.v) ELSE None,
     error       |-> row.error,
     created_at  |-> row.created_at,
     updated_at  |-> row.updated_at,
     metadata    |-> IF Truthy(row.metadata)
                     THEN json_loads(row.metadata.v) ELSE EmptyDict]

\* SELECT * FROM checkpoints WHERE id = ?
SQLiteLoad(checkpoint_id) ==
    LET view == conn_view(db)
    IN  IF checkpoint_id \in DOMAIN view
        THEN row_to_checkpoint(view[checkpoint_id])
        ELSE None

\* SELECT * FROM checkpoints WHERE workflow_id = ? ORDER BY step_index
select_workflow(view, workflow_id) ==
    sorted({row \in {view[k] : k \in DOMAIN view} : row.workflow_id = workflow_id})

SQLiteList(workflow_id) ==
    LET rows == select_workflow(conn_view(db), workflow_id)
    IN  [k \in 1..Len(rows) |-> row_to_checkpoint(rows[k])]

\* mutant of SQLiteGetLast: ORDER BY step_index ASC LIMIT 1
SQLiteGetLast_ascending(workflow_id) ==
    LET rows == select_workflow(conn_view(db), workflow_id)
    IN  IF rows # <<>> THEN row_to_checkpoint(rows[1]) ELSE None

\* ... ORDER BY step_index DESC LIMIT 1
SQLiteGetLast(workflow_id) ==
    LET rows == select_workflow(conn_view(db), workflow_id)
    IN  IF rows # <<>> THEN row_to_checkpoint(rows[Len(rows)]) ELSE None

\* the rows DELETE FROM checkpoints WHERE workflow_id = ? removes (cursor.rowcount)
SQLiteToDelete(workflow_id) ==
    {k \in DOMAIN conn_view(db) : conn_view(db)[k].workflow_id = workflow_id}

SQLiteDelete(workflow_id) ==
    /\ db' = commit(execute_write(db,
                 Without(conn_view(db), SQLiteToDelete(workflow_id))))
    /\ UNCHANGED <<heap, checkpoints>>

\* SELECT DISTINCT workflow_id FROM checkpoints WHERE status IN (?, ?)
SQLiteGetIncomplete ==
    LET view == conn_view(db)
    IN  {view[k].workflow_id : k \in
            {j \in DOMAIN view :
                view[j].status \in {StatusValue("PENDING"), StatusValue("IN_PROGRESS")}}}

(***************************************************************************)
(* self._backend.<method>: the call goes to the backend the Checkpointer   *)
(* was constructed with.                                                   *)
(***************************************************************************)
BackendSave(ref, cp) ==
    /\ IF backend = "memory" THEN MemorySave(ref, cp) ELSE SQLiteSave(ref, cp)
    /\ saved' = (cp.id :> [cp EXCEPT !.updated_at = now]) @@ saved

BackendLoad(checkpoint_id) ==
    IF backend = "memory" THEN MemoryLoad(checkpoint_id) ELSE SQLiteLoad(checkpoint_id)

BackendList(workflow_id) ==
    IF backend = "memory" THEN MemoryList(workflow_id) ELSE SQLiteList(workflow_id)

BackendGetLast(workflow_id) ==
    IF backend = "memory" THEN MemoryGetLast(workflow_id) ELSE SQLiteGetLast(workflow_id)

BackendToDelete(workflow_id) ==
    IF backend = "memory" THEN MemoryToDelete(workflow_id) ELSE SQLiteToDelete(workflow_id)

BackendDelete(workflow_id) ==
    /\ IF backend = "memory" THEN MemoryDelete(workflow_id) ELSE SQLiteDelete(workflow_id)
    /\ saved' = Without(saved, BackendToDelete(workflow_id))

BackendGetIncomplete ==
    IF backend = "memory" THEN MemoryGetIncomplete ELSE SQLiteGetIncomplete

(***************************************************************************)
(* Checkpointer.                                                           *)
(***************************************************************************)
\* the (step_name, input_data, metadata) arguments callers pass to start
StartArgs ==
    {[step_name |-> "plan",  input_data |-> EmptyDict, metadata |-> None],
     [step_name |-> "build", input_data |-> Dict(<< <<"task", "t">> >>),
      metadata |-> Dict(<< <<"m", "1">> >>)]}

\* mutant of NewCheckpoint: the record starts as PENDING
NewCheckpoint_pending(workflow_id, step_name, step_index, input_data, metadata) ==
    Checkpoint(generate_checkpoint_id(workflow_id, step_index),
               workflow_id, step_name, step_index, "PENDING",
               input_data, Or(metadata, EmptyDict))

\* checkpoint_start: the Checkpoint it constructs
NewCheckpoint(workflow_id, step_name, step_index, input_data, metadata) ==
    Checkpoint(generate_checkpoint_id(workflow_id, step_index),
               workflow_id, step_name, step_index, "IN_PROGRESS",
               input_data, Or(metadata, EmptyDict))

\* mutant of checkpoint_start: a step that is stored as COMPLETED is not
\* started again
checkpoint_start_guarded(ref, workflow_id, step_name, step_index, input_data, metadata) ==
    /\ allocs' = ref
    /\ IF /\ BackendLoad(generate_checkpoint_id(workflow_id, step_index)) # None
          /\ BackendLoad(generate_checkpoint_id(workflow_id, step_index)).status
                 = "COMPLETED"
       THEN UNCHANGED <<heap, checkpoints, db, saved>>
       ELSE BackendSave(ref,
                NewCheckpoint(workflow_id, step_name, step_index, input_data, metadata))

\* checkpoint_start: the new object is ref
checkpoint_start(ref, workflow_id, step_name, step_index, input_data, metadata) ==
    /\ allocs' = ref
    /\ BackendSave(ref,
           NewCheckpoint(workflow_id, step_name, step_index, input_data, metadata))

\* checkpoint_complete: the fields it assigns before the save
completed(cp, output_data) ==
    [cp EXCEPT !.status = "COMPLETED", !.output_data = output_data]

checkpoint_complete(ref, output_data) ==
    BackendSave(ref, completed(heap[ref], output_data))

\* checkpoint_failed: the fields it assigns before the save
failed(cp, error) ==
    [cp EXCEPT !.status = "FAILED", !.error = error]

\* mutant of checkpoint_failed: an update of the stored record, which does
\* nothing to the store when no record has the id
checkpoint_failed_update_only(ref, error) ==
    IF heap[ref].id \in (IF backend = "memory" THEN DOMAIN checkpoints
                                                ELSE DOMAIN conn_view(db))
       THEN BackendSave(ref, failed(heap[ref], error))
       ELSE /\ heap' = [heap EXCEPT ![ref] = failed(heap[ref], error)]
            /\ UNCHANGED <<checkpoints, db, saved>>

checkpoint_failed(ref, error) ==
    BackendSave(ref, failed(heap[ref], error))

\* mutant of mark_recovered: the error of the failed attempt is cleared
mark_recovered_clears_error(ref) ==
    BackendSave(ref, [heap[ref] EXCEPT !.status = "RECOVERED", !.error = None])

mark_recovered(ref) ==
    BackendSave(ref, [heap[ref] EXCEPT !.status = "RECOVERED"])

\* for cp in reversed(checkpoints): if cp.status in statuses: return cp
\* (the position of the checkpoint returned, 0 when the loop ends without one)
last_with_status(cps, statuses) ==
    LET hits == {k \in 1..Len(cps) : cps[k].status \in statuses}
    IN  IF hits = {} THEN 0 ELSE Max(hits)

\* mutant of resume_from_last: the first checkpoint instead of the last
resume_from_first(cps) == cps[1]

resume_from_last(cps) == cps[Len(cps)]

\* mutant of restart_task: only a FAILED checkpoint is a match
restart_task_failed_only(cps) ==
    LET k == last_with_status(cps, {"FAILED"})
    IN  IF k # 0 THEN cps[k] ELSE cps[Len(cps)]

\* mutant of restart_task: a RECOVERED checkpoint is a match too
restart_task_recovered_too(cps) ==
    LET k == last_with_status(cps, {"FAILED", "IN_PROGRESS", "RECOVERED"})
    IN  IF k # 0 THEN cps[k] ELSE cps[Len(cps)]

restart_task(cps) ==
    LET k == last_with_status(cps, {"FAILED", "IN_PROGRESS"})
    IN  IF k # 0 THEN cps[k] ELSE cps[Len(cps)]

\* mutant of skip_failed: falls back to the last checkpoint
skip_failed_with_fallback(cps) ==
    LET k == last_with_status(cps, {"COMPLETED"})
    IN  IF k # 0 THEN cps[k] ELSE cps[Len(cps)]

skip_failed(cps) ==
    LET k == last_with_status(cps, {"COMPLETED"})
    IN  IF k # 0 THEN cps[k] ELSE None

\* mutant of get_recovery_point: MANUAL is not tested first
get_recovery_point_no_manual(workflow_id) ==
    LET cps == BackendList(workflow_id)
    IN  IF Len(cps) = 0 THEN None
        ELSE IF recovery_mode = "RESUME_FROM_LAST" THEN resume_from_last(cps)
        ELSE IF recovery_mode = "RESTART_TASK" THEN restart_task(cps)
        ELSE IF recovery_mode = "SKIP_FAILED" THEN skip_failed(cps)
        ELSE cps[Len(cps)]

get_recovery_point(workflow_id) ==
    IF recovery_mode = "MANUAL" THEN None
    ELSE LET cps == BackendList(workflow_id)
         IN  IF Len(cps) = 0 THEN None
             ELSE IF recovery_mode = "RESUME_FROM_LAST" THEN resume_from_last(cps)
             ELSE IF recovery_mode = "RESTART_TASK" THEN restart_task(cps)
             ELSE IF recovery_mode = "SKIP_FAILED" THEN skip_failed(cps)
             ELSE cps[Len(cps)]

(***************************************************************************)
(* Actions: one call of the Checkpointer each.                             *)
(***************************************************************************)
\* a thread that is not inside a call of the Checkpointer; conn is the
\* transaction of the thread's own connection (self._local.conn)
Idle == [pc |-> "idle", op |-> "", ref |-> 0, arg |-> None, conn |-> NoTxn,
         pending |-> [kind |-> "none"]]

\* Checkpointer.__init__ with one of the given backends and recovery modes
Construct(backends, modes) ==
    /\ backend \in backends
    /\ recovery_mode \in modes
    /\ now = 0
    /\ heap = [r \in Refs |-> Free]
    /\ allocs = 0
    /\ checkpoints = Empty
    /\ db = [disk |-> Empty, txn |-> NoTxn]
    /\ ctx = [c \in CtxIds |-> Free]
    /\ saved = Empty
    /\ last = [op |-> "init"]
    /\ threads = [t \in Threads |-> Idle]
    /\ twin = [r \in Refs |-> Free]
    /\ workflow_counter = [k \in Instances |-> 0]
    /\ issued = [k \in Instances |-> <<>>]
    /\ lock = 0

\* the clock advances between two calls
Tick ==
    /\ now < MaxClock
    /\ now' = now + 1
    /\ UNCHANGED <<backend, recovery_mode, heap, allocs, checkpoints, db, ctx, saved, last, threads,
                 twin, workflow_counter, issued, lock>>

Start(w, i, a) ==
    /\ allocs < MaxObjs
    /\ checkpoint_start(allocs + 1, w, a.step_name, i, a.input_data, a.metadata)
    /\ last' = [op |-> "checkpoint_start", workflow_id |-> w, step_index |-> i,
                args |-> a, ref |-> allocs + 1]
    /\ UNCHANGED <<backend, recovery_mode, now, ctx, threads,
                 twin, workflow_counter, issued, lock>>

Complete(ref, out) ==
    /\ heap[ref] # Free
    /\ checkpoint_complete(ref, out)
    /\ last' = [op |-> "checkpoint_complete", ref |-> ref, output_data |-> out]
    /\ UNCHANGED <<backend, recovery_mode, now, allocs, ctx, threads,
                 twin, workflow_counter, issued, lock>>

Fail(ref, msg) ==
    /\ heap[ref] # Free
    /\ checkpoint_failed(ref, Str(msg))
    /\ last' = [op |-> "checkpoint_failed", ref |-> ref, error |-> Str(msg)]
    /\ UNCHANGED <<backend, recovery_mode, now, allocs, ctx, threads,
                 twin, workflow_counter, issued, lock>>

MarkRecovered(ref) ==
    /\ heap[ref] # Free
    /\ mark_recovered(ref)
    /\ last' = [op |-> "mark_recovered", ref |-> ref]
    /\ UNCHANGED <<backend, recovery_mode, now, allocs, ctx, threads,
                 twin, workflow_counter, issued, lock>>

GetRecoveryPoint(w) ==
    /\ last' = [op |-> "get_recovery_point", workflow_id |-> w,
                ret |-> get_recovery_point(w)]
    /\ UNCHANGED <<backend, recovery_mode, now, heap, allocs, checkpoints, db, ctx, saved, threads,
                 twin, workflow_counter, issued, lock>>

CleanupWorkflow(w) ==
    /\ BackendDelete(w)
    /\ last' = [op |-> "cleanup_workflow", workflow_id |-> w,
                ret |-> Cardinality(BackendToDelete(w))]
    /\ UNCHANGED <<backend, recovery_mode, now, allocs, ctx, threads,
                 twin, workflow_counter, issued, lock>>

(***************************************************************************)
(* Spec: start, complete, fail and mark_recovered in any order on either   *)
(* backend, with the default recovery mode, while the clock advances.      *)
(***************************************************************************)
Init == Construct({"memory", "sqlite"}, {"RESUME_FROM_LAST"})

Next ==
    \/ Tick
    \/ \E w \in Workflows, i \in Steps, a \in StartArgs : Start(w, i, a)
    \/ \E ref \in Refs : Complete(ref, Dict(<< <<"y", "2">> >>))
    \/ \E ref \in Refs : Fail(ref, "boom")
    \/ \E ref \in Refs : MarkRecovered(ref)

Spec == Init /\ [][Next]_vars

(***************************************************************************)
(* SpecRecovery: the recovery point under each recovery mode, over every   *)
(* mix of statuses the calls can store.                                    *)
(***************************************************************************)
DefaultArgs == [step_name |-> "plan", input_data |-> EmptyDict, metadata |-> None]

InitRecovery == Construct({"memory", "sqlite"}, RecoveryMode)

NextRecovery ==
    \/ \E w \in Workflows, i \in Steps : Start(w, i, DefaultArgs)
    \/ \E ref \in Refs : Complete(ref, EmptyDict)
    \/ \E ref \in Refs : Fail(ref, "boom")
    \/ \E ref \in Refs : MarkRecovered(ref)
    \/ \E w \in Workflows : GetRecoveryPoint(w)
    \/ \E w \in Workflows : CleanupWorkflow(w)

SpecRecovery == InitRecovery /\ [][NextRecovery]_vars

(***************************************************************************)
(* CheckpointContext.  A scope is one `with checkpointer.context(...) as   *)
(* ctx:` statement: the context is constructed and entered, the body may   *)
(* call ctx.set_output and ends normally or by raising, and __exit__ runs. *)
(***************************************************************************)
\* an exception whose message is msg
Exception(msg) == [t |-> "Exception", v |-> msg]

\* str(exc_val)
str(exc_val) == Str(exc_val.v)

\* mutant of exit_calls: the exception branch does not return after the fail
exit_calls_fall_through(cx, exc_val) ==
    IF cx.checkpoint = 0 THEN <<>>
    ELSE (IF exc_val # None
          THEN << [f |-> "checkpoint_failed", arg |-> str(exc_val)] >>
          ELSE <<>>)
         \o (IF cx.output # None
             THEN << [f |-> "checkpoint_complete", arg |-> cx.output] >>
             ELSE << [f |-> "checkpoint_complete", arg |-> EmptyDict] >>)

\* __exit__: the calls it makes on the Checkpointer, in order
exit_calls(cx, exc_val) ==
    IF cx.checkpoint = 0 THEN <<>>
    ELSE IF exc_val # None
         THEN << [f |-> "checkpoint_failed", arg |-> str(exc_val)] >>
    ELSE IF cx.output # None
         THEN << [f |-> "checkpoint_complete", arg |-> cx.output] >>
    ELSE << [f |-> "checkpoint_complete", arg |-> EmptyDict] >>

\* mutant of exit_returns: the exception is swallowed
exit_returns_true(cx, exc_val) == exc_val # None

\* __exit__: its return value; a true value suppresses the exception
exit_returns(cx, exc_val) == FALSE

\* the checkpoint object after the given calls assigned its fields
RECURSIVE after_calls(_, _)
after_calls(cp, calls) ==
    IF calls = <<>> THEN cp
    ELSE after_calls(IF calls[1].f = "checkpoint_complete"
                     THEN completed(cp, calls[1].arg)
                     ELSE failed(cp, calls[1].arg),
                     Tail(calls))

\* context(...) and __enter__
Enter(c, w, i, a) ==
    /\ ctx[c] = Free
    /\ allocs < MaxObjs
    /\ checkpoint_start(allocs + 1, w, a.step_name, i, a.input_data, a.metadata)
    /\ ctx' = [ctx EXCEPT ![c] =
                 [scope |-> "body", workflow_id |-> w, step_name |-> a.step_name,
                  step_index |-> i, input_data |-> a.input_data,
                  metadata |-> a.metadata, checkpoint |-> allocs + 1,
                  output |-> None, calls |-> <<>>, propagated |-> None]]
    /\ UNCHANGED <<backend, recovery_mode, now, threads,
                   twin, workflow_counter, issued, lock>>

\* `with checkpointer.context(...) as ctx:` is entered
ScopeEnter(c, w, i, a) ==
    /\ Enter(c, w, i, a)
    /\ last' = [op |-> "scope_enter", c |-> c]

\* `async with checkpointer.context(...) as ctx:` is entered: __aenter__
\* returns self.__enter__()
AsyncEnter(c, w, i, a) ==
    /\ Enter(c, w, i, a)
    /\ last' = [op |-> "scope_aenter", c |-> c]

\* ctx.set_output(out) in the body
SetOutput(c, out) ==
    /\ ctx[c] # Free
    /\ ctx[c].scope = "body"
    /\ ctx' = [ctx EXCEPT ![c].output = out]
    /\ last' = [op |-> "set_output", c |-> c]
    /\ UNCHANGED <<backend, recovery_mode, now, heap, allocs, checkpoints, db, saved, threads,
                   twin, workflow_counter, issued, lock>>

\* __exit__; its calls on the Checkpointer are on one object and each ends in
\* a save of it, so their effect is one save of the object after all of them
Exit(c, exc_val) ==
    /\ ctx[c] # Free
    /\ ctx[c].scope = "body"
    /\ LET calls == exit_calls(ctx[c], exc_val)
       IN  /\ IF calls = <<>>
              THEN UNCHANGED <<heap, checkpoints, db, saved>>
              ELSE BackendSave(ctx[c].checkpoint,
                               after_calls(heap[ctx[c].checkpoint], calls))
           /\ ctx' = [ctx EXCEPT ![c].scope = "exited",
                                 ![c].calls = calls,
                                 ![c].propagated =
                                     IF exit_returns(ctx[c], exc_val)
                                     THEN None ELSE exc_val]
    /\ UNCHANGED <<backend, recovery_mode, now, allocs, threads,
                   twin, workflow_counter, issued, lock>>

\* the body of a `with` ends, normally (exc_val = None) or by raising
\* exc_val, and __exit__ runs
ScopeExit(c, exc_val) ==
    /\ Exit(c, exc_val)
    /\ last' = [op |-> "scope_exit", c |-> c, exc_val |-> exc_val]

\* the body of an `async with` ends and __aexit__ runs: it returns
\* self.__exit__(exc_type, exc_val, exc_tb)
AsyncExit(c, exc_val) ==
    /\ Exit(c, exc_val)
    /\ last' = [op |-> "scope_aexit", c |-> c, exc_val |-> exc_val]

(***************************************************************************)
(* SpecScope: scopes on either backend, interleaved with each other and    *)
(* with direct start calls.                                                *)
(***************************************************************************)
InitScope == Construct({"memory", "sqlite"}, {"RESUME_FROM_LAST"})

NextScope ==
    \/ \E c \in CtxIds, w \in Workflows, i \in Steps : ScopeEnter(c, w, i, DefaultArgs)
    \/ \E c \in CtxIds, out \in OutputDicts : SetOutput(c, out)
    \/ \E c \in CtxIds : ScopeExit(c, None)
    \/ \E c \in CtxIds, msg \in Messages : ScopeExit(c, Exception(msg))
    \/ \E w \in Workflows, i \in Steps : Start(w, i, DefaultArgs)
    \/ \E w \in Workflows : CleanupWorkflow(w)

SpecScope == InitScope /\ [][NextScope]_vars

(***************************************************************************)
(* SpecDurable: the SQLite backend across process restarts.                *)
(***************************************************************************)
\* the process ends, by exit or by a crash, and a new process constructs a
\* Checkpointer with the same backend selector and path: the objects of the
\* old process and the open transaction of its connection are gone, the
\* committed table is what _init_db finds
Restart ==
    /\ heap' = [r \in Refs |-> Free]
    /\ ctx' = [c \in CtxIds |-> Free]
    /\ checkpoints' = Empty
    /\ db' = [disk |-> db.disk, txn |-> NoTxn]
    /\ saved' = IF backend = "memory" THEN Empty ELSE saved
    /\ last' = [op |-> "restart"]
    /\ UNCHANGED <<backend, recovery_mode, now, allocs, threads,
                 twin, workflow_counter, issued, lock>>

InitDurable == Construct({"sqlite"}, {"RESUME_FROM_LAST"})

NextDurable ==
    \/ Tick
    \/ \E w \in Workflows, i \in Steps : Start(w, i, DefaultArgs)
    \/ \E ref \in Refs, out \in OutputDicts : Complete(ref, out)
    \/ \E ref \in Refs : Fail(ref, "boom")
    \/ \E ref \in Refs : MarkRecovered(ref)
    \/ \E w \in Workflows : CleanupWorkflow(w)
    \/ Restart

SpecDurable == InitDurable /\ [][NextDurable]_vars

(***************************************************************************)
(* SpecCrash: workflows run step by step as in simulate_workflow of        *)
(* examples/05_checkpointing.py, on the SQLite backend; the process may    *)
(* crash at any point and the next process starts as main() does, with     *)
(* check_for_incomplete_workflows.                                         *)
(***************************************************************************)
\* the workflows a scope of this process is running or has run
Running == {ctx[c].workflow_id : c \in {d \in CtxIds : ctx[d] # Free}}

\* one iteration of `for i, (step_name, input_data) in enumerate(steps):
\* async with checkpointer.context(...)`: the loop of workflow w, held in
\* slot c, enters step i; it gets there only when the scope of step i - 1
\* has exited without an exception
WorkflowStep(c, w, i) ==
    /\ allocs < MaxObjs
    /\ IF i = 0
       THEN /\ ctx[c] = Free
            /\ w \notin Running
            /\ \A id \in DOMAIN conn_view(db) : conn_view(db)[id].workflow_id # w
       ELSE /\ ctx[c] # Free
            /\ ctx[c].scope = "exited"
            /\ ctx[c].propagated = None
            /\ ctx[c].workflow_id = w
            /\ ctx[c].step_index = i - 1
    /\ checkpoint_start(allocs + 1, w, DefaultArgs.step_name, i,
                        DefaultArgs.input_data, DefaultArgs.metadata)
    /\ ctx' = [ctx EXCEPT ![c] =
                 [scope |-> "body", workflow_id |-> w,
                  step_name |-> DefaultArgs.step_name, step_index |-> i,
                  input_data |-> DefaultArgs.input_data,
                  metadata |-> DefaultArgs.metadata, checkpoint |-> allocs + 1,
                  output |-> None, calls |-> <<>>, propagated |-> None]]
    /\ last' = [op |-> "scope_enter", c |-> c]
    /\ UNCHANGED <<backend, recovery_mode, now, threads,
                 twin, workflow_counter, issued, lock>>

\* the steps whose scope is in its body: started, neither completed nor failed
InFlight ==
    {[workflow_id |-> ctx[c].workflow_id, step_index |-> ctx[c].step_index] :
        c \in {d \in CtxIds : ctx[d] # Free /\ ctx[d].scope = "body"}}

\* the process dies and main() of a new process constructs its Checkpointer
\* on the same path, with the recovery mode it is given
Crash ==
    /\ heap' = [r \in Refs |-> Free]
    /\ ctx' = [c \in CtxIds |-> Free]
    /\ checkpoints' = Empty
    /\ db' = [disk |-> db.disk, txn |-> NoTxn]
    /\ recovery_mode' \in RecoveryMode
    /\ last' = [op |-> "crash", in_flight |-> InFlight]
    /\ UNCHANGED <<backend, now, allocs, saved, threads,
                 twin, workflow_counter, issued, lock>>

\* check_for_incomplete_workflows: get_incomplete_workflows(), then
\* get_recovery_point(wf_id) for each workflow returned; main() calls it
\* first, so after a crash it is the first call of the new process
CheckForIncompleteWorkflows ==
    /\ last' = [op |-> "check_for_incomplete_workflows",
                in_flight |-> IF last.op = "crash" THEN last.in_flight ELSE {},
                incomplete |-> BackendGetIncomplete,
                recovery |-> [w \in BackendGetIncomplete |-> get_recovery_point(w)]]
    /\ UNCHANGED <<backend, recovery_mode, now, heap, allocs, checkpoints, db, ctx, saved, threads,
                 twin, workflow_counter, issued, lock>>

InitCrash == Construct({"sqlite"}, RecoveryMode)

NextCrash ==
    \/ Tick
    \/ \E c \in CtxIds, w \in Workflows, i \in Steps : WorkflowStep(c, w, i)
    \/ \E c \in CtxIds, out \in OutputDicts : SetOutput(c, out)
    \/ \E c \in CtxIds : ScopeExit(c, None)
    \/ \E c \in CtxIds : ScopeExit(c, Exception("boom"))
    \/ Crash
    \/ CheckForIncompleteWorkflows

SpecCrash == InitCrash /\ [][NextCrash]_vars

(***************************************************************************)
(* SpecThreads: threads call the Checkpointer concurrently.  A call is     *)
(* the sequence of its statements, and the statements of different threads *)
(* interleave.  A method of the memory backend is one step: it runs under  *)
(* self._lock.  A write of the SQLite backend is two steps, the statement  *)
(* on the thread's own connection and the commit; a statement that writes  *)
(* waits while another connection holds the write lock of the file.        *)
(***************************************************************************)
\* the checkpoint objects a caller holds: checkpoint_start has returned them
Held(ref) ==
    /\ heap[ref] # Free
    /\ \A t \in Threads : ~(threads[t].pc # "idle" /\ threads[t].op = "checkpoint_start"
                              /\ threads[t].ref = ref)

\* the thread waits for the write lock of the database file
WriteLockFree(t) == \A u \in Threads \ {t} : ~threads[u].conn.open

\* checkpoint_start up to the call of save: the Checkpoint is constructed
ThreadStart(t, w, i, a) ==
    /\ threads[t].pc = "idle"
    /\ allocs < MaxObjs
    /\ allocs' = allocs + 1
    /\ heap' = [heap EXCEPT ![allocs + 1] =
                  NewCheckpoint(w, a.step_name, i, a.input_data, a.metadata)]
    /\ threads' = [threads EXCEPT ![t] =
                     [Idle EXCEPT !.pc = "save", !.op = "checkpoint_start",
                                  !.ref = allocs + 1]]
    /\ UNCHANGED <<backend, recovery_mode, now, checkpoints, db, ctx, saved, last,
                 twin, workflow_counter, issued, lock>>

\* checkpoint_complete: checkpoint.status = CheckpointStatus.COMPLETED
ThreadComplete(t, ref, out) ==
    /\ threads[t].pc = "idle"
    /\ Held(ref)
    /\ heap' = [heap EXCEPT ![ref].status = "COMPLETED"]
    /\ threads' = [threads EXCEPT ![t] =
                     [Idle EXCEPT !.pc = "output_data", !.op = "checkpoint_complete",
                                  !.ref = ref, !.arg = out]]
    /\ UNCHANGED <<backend, recovery_mode, now, allocs, checkpoints, db, ctx, saved, last,
                 twin, workflow_counter, issued, lock>>

\* checkpoint_failed: checkpoint.status = CheckpointStatus.FAILED
ThreadFail(t, ref, msg) ==
    /\ threads[t].pc = "idle"
    /\ Held(ref)
    /\ heap' = [heap EXCEPT ![ref].status = "FAILED"]
    /\ threads' = [threads EXCEPT ![t] =
                     [Idle EXCEPT !.pc = "error", !.op = "checkpoint_failed",
                                  !.ref = ref, !.arg = Str(msg)]]
    /\ UNCHANGED <<backend, recovery_mode, now, allocs, checkpoints, db, ctx, saved, last,
                 twin, workflow_counter, issued, lock>>

\* mark_recovered: checkpoint.status = CheckpointStatus.RECOVERED
ThreadMarkRecovered(t, ref) ==
    /\ threads[t].pc = "idle"
    /\ Held(ref)
    /\ heap' = [heap EXCEPT ![ref].status = "RECOVERED"]
    /\ threads' = [threads EXCEPT ![t] =
                     [Idle EXCEPT !.pc = "save", !.op = "mark_recovered", !.ref = ref]]
    /\ UNCHANGED <<backend, recovery_mode, now, allocs, checkpoints, db, ctx, saved, last,
                 twin, workflow_counter, issued, lock>>

\* checkpoint.output_data = output_data, or checkpoint.error = error
ThreadAssign(t) ==
    /\ threads[t].pc \in {"output_data", "error"}
    /\ heap' = IF threads[t].pc = "output_data"
               THEN [heap EXCEPT ![threads[t].ref].output_data = threads[t].arg]
               ELSE [heap EXCEPT ![threads[t].ref].error = threads[t].arg]
    /\ threads' = [threads EXCEPT ![t].pc = "save"]
    /\ UNCHANGED <<backend, recovery_mode, now, allocs, checkpoints, db, ctx, saved, last,
                 twin, workflow_counter, issued, lock>>

\* self._backend.save(checkpoint): on the memory backend the whole method,
\* after which the call returns; on the SQLite backend up to conn.execute
ThreadSave(t) ==
    /\ threads[t].pc = "save"
    /\ IF backend = "memory"
       THEN /\ BackendSave(threads[t].ref, heap[threads[t].ref])
            /\ threads' = [threads EXCEPT ![t] = Idle]
            /\ last' = [op |-> threads[t].op, thread |-> t, ref |-> threads[t].ref]
       ELSE /\ WriteLockFree(t)
            /\ LET c == [heap[threads[t].ref] EXCEPT !.updated_at = now]
               IN  /\ heap' = [heap EXCEPT ![threads[t].ref] = c]
                   /\ threads' = [threads EXCEPT
                        ![t].pc = "commit",
                        ![t].conn = execute_write(db,
                            insert_or_replace(conn_view(db), checkpoint_row(c))).txn,
                        ![t].pending = [kind |-> "save", cp |-> c]]
            /\ UNCHANGED <<checkpoints, db, saved, last>>
    /\ UNCHANGED <<backend, recovery_mode, now, allocs, ctx,
                 twin, workflow_counter, issued, lock>>

\* cleanup_workflow: on the memory backend the whole method; on the SQLite
\* backend up to conn.execute of the DELETE
ThreadCleanup(t, w) ==
    /\ threads[t].pc = "idle"
    /\ IF backend = "memory"
       THEN /\ BackendDelete(w)
            /\ last' = [op |-> "cleanup_workflow", thread |-> t, workflow_id |-> w,
                        ret |-> Cardinality(BackendToDelete(w))]
            /\ UNCHANGED threads
       ELSE /\ WriteLockFree(t)
            /\ threads' = [threads EXCEPT ![t] =
                  [Idle EXCEPT
                     !.pc = "commit", !.op = "cleanup_workflow", !.arg = Str(w),
                     !.conn = execute_write(db,
                         Without(conn_view(db), SQLiteToDelete(w))).txn,
                     !.pending = [kind |-> "delete", ids |-> SQLiteToDelete(w)]]]
            /\ UNCHANGED <<heap, checkpoints, db, saved, last>>
    /\ UNCHANGED <<backend, recovery_mode, now, allocs, ctx,
                 twin, workflow_counter, issued, lock>>

\* conn.commit() of the thread's connection, after which the call returns
ThreadCommit(t) ==
    /\ threads[t].pc = "commit"
    /\ db' = commit([disk |-> db.disk, txn |-> threads[t].conn])
    /\ saved' = IF threads[t].pending.kind = "save"
                THEN (threads[t].pending.cp.id :> threads[t].pending.cp) @@ saved
                ELSE Without(saved, threads[t].pending.ids)
    /\ threads' = [threads EXCEPT ![t] = Idle]
    /\ last' = IF threads[t].pending.kind = "save"
               THEN [op |-> threads[t].op, thread |-> t, ref |-> threads[t].ref]
               ELSE [op |-> "cleanup_workflow", thread |-> t,
                     workflow_id |-> threads[t].arg.v,
                     ret |-> Cardinality(threads[t].pending.ids)]
    /\ UNCHANGED <<backend, recovery_mode, now, heap, allocs, checkpoints, ctx,
                 twin, workflow_counter, issued, lock>>

\* the reading methods of the backend
Reads == {"load", "list_workflow_checkpoints", "get_last_checkpoint",
          "get_incomplete_workflows"}

\* one of the reading methods, called by a thread; w and i are its arguments
\* (load is called with the id of step i of w)
ThreadRead(t, method, w, i) ==
    /\ threads[t].pc = "idle"
    /\ last' = [op |-> method, thread |-> t, workflow_id |-> w,
                id |-> generate_checkpoint_id(w, i),
                ret |-> CASE method = "load" ->
                                 BackendLoad(generate_checkpoint_id(w, i))
                          [] method = "list_workflow_checkpoints" -> BackendList(w)
                          [] method = "get_last_checkpoint" -> BackendGetLast(w)
                          [] method = "get_incomplete_workflows" -> BackendGetIncomplete]
    /\ UNCHANGED <<backend, recovery_mode, now, heap, allocs, checkpoints, db, ctx, saved,
                   threads,
                 twin, workflow_counter, issued, lock>>

InitThreads == Construct({"memory", "sqlite"}, {"RESUME_FROM_LAST"})

NextThreads ==
    \/ \E t \in Threads : ThreadStart(t, "wa", 0, DefaultArgs)
    \/ \E t \in Threads, ref \in Refs : ThreadComplete(t, ref, Dict(<< <<"y", "2">> >>))
    \/ \E t \in Threads, ref \in Refs : ThreadFail(t, ref, "boom")
    \/ \E t \in Threads : ThreadAssign(t)
    \/ \E t \in Threads : ThreadSave(t)
    \/ \E t \in Threads : ThreadCleanup(t, "wa")
    \/ \E t \in Threads : ThreadCommit(t)
    \/ \E t \in Threads, m \in Reads : ThreadRead(t, m, "wa", 0)

SpecThreads == InitThreads /\ [][NextThreads]_vars

(***************************************************************************)
(* SpecBackend: the CheckpointBackend interface called directly, with      *)
(* Checkpoint values of every status and with present, empty and absent    *)
(* payload fields, in every order.                                         *)
(***************************************************************************)
\* the payload fields of the Checkpoint values saved
Payloads ==
    {[input_data |-> EmptyDict, output_data |-> None, error |-> None,
      metadata |-> EmptyDict],
     [input_data |-> EmptyDict, output_data |-> EmptyDict, error |-> None,
      metadata |-> EmptyDict],
     [input_data |-> Dict(<< <<"task", "t">> >>),
      output_data |-> Dict(<< <<"y", "2">> >>), error |-> None,
      metadata |-> Dict(<< <<"m", "1">> >>)],
     [input_data |-> Dict(<< <<"task", "t">> >>), output_data |-> None,
      error |-> Str("boom"), metadata |-> EmptyDict]}

\* Checkpoint(id=..., ..., output_data=..., error=...) constructed now
CheckpointValue(w, i, status, p) ==
    [Checkpoint(generate_checkpoint_id(w, i), w, "plan", i, status,
                p.input_data, p.metadata)
        EXCEPT !.output_data = p.output_data, !.error = p.error]

\* backend.save(c) of a Checkpoint the caller has just constructed
Save(c) ==
    /\ allocs < MaxObjs
    /\ allocs' = allocs + 1
    /\ BackendSave(allocs + 1, c)
    /\ last' = [op |-> "save", cp |-> c, ref |-> allocs + 1]
    /\ UNCHANGED <<backend, recovery_mode, now, ctx, threads,
                 twin, workflow_counter, issued, lock>>

InitBackend == Construct({"memory", "sqlite"}, {"RESUME_FROM_LAST"})

\* the payloads the records of a status are saved with: none before the
\* step ends, no error on a completed step, no output on a failed one
PayloadsOf(status) ==
    CASE status \in {"PENDING", "IN_PROGRESS"} ->
             {p \in Payloads : p.output_data = None /\ p.error = None}
      [] status = "COMPLETED" -> {p \in Payloads : p.error = None}
      [] status = "FAILED"    -> {p \in Payloads : p.output_data = None}
      [] status = "RECOVERED" -> {p \in Payloads : p.output_data # EmptyDict}

\* the arguments a reading method takes: load an id, get_incomplete_workflows
\* none, the others a workflow
ReadArgs(method) ==
    CASE method = "load" -> Workflows \X Steps
      [] method = "get_incomplete_workflows" -> {<<"wa", 0>>}
      [] OTHER -> Workflows \X {0}

NextBackend ==
    \/ \E w \in Workflows, i \in Steps, status \in CheckpointStatus :
          \E p \in PayloadsOf(status) : Save(CheckpointValue(w, i, status, p))
    \/ \E w \in Workflows : CleanupWorkflow(w)
    \/ \E m \in Reads : \E a \in ReadArgs(m) : ThreadRead(1, m, a[1], a[2])

SpecBackend == InitBackend /\ [][NextBackend]_vars

(***************************************************************************)
(* SpecHandles: complete, fail and mark_recovered on every handle a caller *)
(* may hold, current or stale, with empty and non-empty outputs and        *)
(* messages, while the clock advances.                                     *)
(***************************************************************************)
InitHandles == Construct({"memory", "sqlite"}, {"RESUME_FROM_LAST"})

NextHandles ==
    \/ Tick
    \/ \E i \in Steps, a \in StartArgs : Start("wa", i, a)
    \/ \E ref \in Refs, out \in OutputDicts : Complete(ref, out)
    \/ \E ref \in Refs, msg \in Messages : Fail(ref, msg)
    \/ \E ref \in Refs : MarkRecovered(ref)

SpecHandles == InitHandles /\ [][NextHandles]_vars

(***************************************************************************)
(* SpecOps: every operation of the Checkpointer and the scopes together,   *)
(* in any order.                                                           *)
(***************************************************************************)
InitOps == Construct({"memory", "sqlite"}, {"RESUME_FROM_LAST"})

NextOps ==
    \/ \E i \in Steps : Start("wa", i, DefaultArgs)
    \/ \E ref \in Refs : Complete(ref, Dict(<< <<"y", "2">> >>))
    \/ \E ref \in Refs : Fail(ref, "boom")
    \/ \E ref \in Refs : MarkRecovered(ref)
    \/ CleanupWorkflow("wa")
    \/ \E c \in CtxIds, i \in Steps : ScopeEnter(c, "wa", i, DefaultArgs)
    \/ \E c \in CtxIds : SetOutput(c, Dict(<< <<"y", "2">> >>))
    \/ \E c \in CtxIds : ScopeExit(c, None)
    \/ \E c \in CtxIds : ScopeExit(c, Exception("boom"))

SpecOps == InitOps /\ [][NextOps]_vars

(***************************************************************************)
(* SpecFailure: calls of the Checkpointer whose save raises, on the SQLite *)
(* backend.  SQLiteCheckpointBackend.save can raise at conn.execute (or at *)
(* the json.dumps of its parameters), before the connection has written    *)
(* anything, and at conn.commit(), when the INSERT OR REPLACE has run in    *)
(* the connection's transaction; save has no rollback, so the transaction  *)
(* stays open.  The Checkpointer has no handler around save: the exception *)
(* reaches the caller after the one attempt.                                *)
(***************************************************************************)
\* the statements of save at which it can raise
FailurePoints == {"execute", "commit"}

\* SQLiteCheckpointBackend.save(checkpoint) raising at the given statement
SQLiteSaveRaises(c, at) ==
    /\ backend = "sqlite"
    /\ db' = IF at = "commit"
             THEN execute_write(db, insert_or_replace(conn_view(db), checkpoint_row(c)))
             ELSE db
    /\ UNCHANGED <<checkpoints, saved>>

\* checkpoint_start whose save raises: the caller gets no handle
StartRaises(w, i, a, at) ==
    /\ allocs < MaxObjs
    /\ allocs' = allocs + 1
    /\ SQLiteSaveRaises(NewCheckpoint(w, a.step_name, i, a.input_data, a.metadata), at)
    /\ last' = [op |-> "checkpoint_start", workflow_id |-> w, step_index |-> i,
                args |-> a, raised |-> at, attempts |-> 1]
    /\ UNCHANGED <<backend, recovery_mode, now, heap, ctx, threads,
                 twin, workflow_counter, issued, lock>>

\* checkpoint_complete whose save raises: the handle keeps the fields assigned
CompleteRaises(ref, out, at) ==
    /\ heap[ref] # Free
    /\ heap' = [heap EXCEPT ![ref] =
                  [completed(heap[ref], out) EXCEPT !.updated_at = now]]
    /\ SQLiteSaveRaises([completed(heap[ref], out) EXCEPT !.updated_at = now], at)
    /\ last' = [op |-> "checkpoint_complete", ref |-> ref, output_data |-> out,
                raised |-> at, attempts |-> 1]
    /\ UNCHANGED <<backend, recovery_mode, now, allocs, ctx, threads,
                 twin, workflow_counter, issued, lock>>

\* checkpoint_failed whose save raises
FailRaises(ref, msg, at) ==
    /\ heap[ref] # Free
    /\ heap' = [heap EXCEPT ![ref] =
                  [failed(heap[ref], Str(msg)) EXCEPT !.updated_at = now]]
    /\ SQLiteSaveRaises([failed(heap[ref], Str(msg)) EXCEPT !.updated_at = now], at)
    /\ last' = [op |-> "checkpoint_failed", ref |-> ref, error |-> Str(msg),
                raised |-> at, attempts |-> 1]
    /\ UNCHANGED <<backend, recovery_mode, now, allocs, ctx, threads,
                 twin, workflow_counter, issued, lock>>

\* mark_recovered whose save raises
MarkRecoveredRaises(ref, at) ==
    /\ heap[ref] # Free
    /\ heap' = [heap EXCEPT ![ref] =
                  [heap[ref] EXCEPT !.status = "RECOVERED", !.updated_at = now]]
    /\ SQLiteSaveRaises([heap[ref] EXCEPT !.status = "RECOVERED", !.updated_at = now], at)
    /\ last' = [op |-> "mark_recovered", ref |-> ref, raised |-> at, attempts |-> 1]
    /\ UNCHANGED <<backend, recovery_mode, now, allocs, ctx, threads,
                 twin, workflow_counter, issued, lock>>

InitFailure == Construct({"sqlite"}, {"RESUME_FROM_LAST"})

NextFailure ==
    \/ Tick
    \/ Start("wa", 0, DefaultArgs)
    \/ \E ref \in Refs : Complete(ref, Dict(<< <<"y", "2">> >>))
    \/ \E ref \in Refs : Fail(ref, "boom")
    \/ \E ref \in Refs : MarkRecovered(ref)
    \/ \E at \in FailurePoints : StartRaises("wa", 0, DefaultArgs, at)
    \/ \E ref \in Refs, at \in FailurePoints :
          CompleteRaises(ref, Dict(<< <<"y", "2">> >>), at)
    \/ \E ref \in Refs, at \in FailurePoints : FailRaises(ref, "boom", at)
    \/ \E ref \in Refs, at \in FailurePoints : MarkRecoveredRaises(ref, at)

SpecFailure == InitFailure /\ [][NextFailure]_vars

(***************************************************************************)
(* SpecLookups: load, get_last_checkpoint and get_recovery_point called    *)
(* for present and absent records, in every recovery mode, between writes  *)
(* and cleanups of two workflows.                                          *)
(***************************************************************************)
InitLookups == Construct({"memory", "sqlite"}, RecoveryMode)

NextLookups ==
    \/ \E w \in Workflows, i \in Steps : Start(w, i, DefaultArgs)
    \/ \E ref \in Refs : Fail(ref, "boom")
    \/ \E w \in Workflows : CleanupWorkflow(w)
    \/ \E w \in Workflows, i \in Steps : ThreadRead(1, "load", w, i)
    \/ \E w \in Workflows : ThreadRead(1, "get_last_checkpoint", w, 0)
    \/ \E w \in Workflows : GetRecoveryPoint(w)

SpecLookups == InitLookups /\ [][NextLookups]_vars

(***************************************************************************)
(* SpecPair: one caller issues every call to two Checkpointers, the first  *)
(* on the memory backend (heap, checkpoints) and the second on the SQLite  *)
(* backend (twin, db).                                                     *)
(***************************************************************************)
\* self._backend.save on both: the first Checkpointer saves its object ref
\* with the fields cp, the second its own object ref with the fields tw
PairSave(ref, cp, tw) ==
    /\ heap' = [heap EXCEPT ![ref] = [cp EXCEPT !.updated_at = now]]
    /\ checkpoints' = (cp.id :> ref) @@ checkpoints
    /\ twin' = [twin EXCEPT ![ref] = [tw EXCEPT !.updated_at = now]]
    /\ db' = commit(execute_write(db,
                 insert_or_replace(conn_view(db),
                                   checkpoint_row([tw EXCEPT !.updated_at = now]))))
    /\ saved' = (cp.id :> [cp EXCEPT !.updated_at = now]) @@ saved

PairStart(w, i, a) ==
    /\ allocs < MaxObjs
    /\ allocs' = allocs + 1
    /\ PairSave(allocs + 1,
                NewCheckpoint(w, a.step_name, i, a.input_data, a.metadata),
                NewCheckpoint(w, a.step_name, i, a.input_data, a.metadata))
    /\ last' = [op |-> "checkpoint_start", workflow_id |-> w, step_index |-> i,
                args |-> a, ref |-> allocs + 1]
    /\ UNCHANGED <<backend, recovery_mode, now, ctx, threads, workflow_counter, issued, lock>>

PairComplete(ref, out) ==
    /\ heap[ref] # Free
    /\ PairSave(ref, completed(heap[ref], out), completed(twin[ref], out))
    /\ last' = [op |-> "checkpoint_complete", ref |-> ref, output_data |-> out]
    /\ UNCHANGED <<backend, recovery_mode, now, allocs, ctx, threads, workflow_counter,
                   issued, lock>>

PairFail(ref, msg) ==
    /\ heap[ref] # Free
    /\ PairSave(ref, failed(heap[ref], Str(msg)), failed(twin[ref], Str(msg)))
    /\ last' = [op |-> "checkpoint_failed", ref |-> ref, error |-> Str(msg)]
    /\ UNCHANGED <<backend, recovery_mode, now, allocs, ctx, threads, workflow_counter,
                   issued, lock>>

PairMarkRecovered(ref) ==
    /\ heap[ref] # Free
    /\ PairSave(ref, [heap[ref] EXCEPT !.status = "RECOVERED"],
                     [twin[ref] EXCEPT !.status = "RECOVERED"])
    /\ last' = [op |-> "mark_recovered", ref |-> ref]
    /\ UNCHANGED <<backend, recovery_mode, now, allocs, ctx, threads, workflow_counter,
                   issued, lock>>

\* cleanup_workflow on both; ret and twin_ret are the two counts returned
PairCleanup(w) ==
    /\ checkpoints' = Without(checkpoints, MemoryToDelete(w))
    /\ db' = commit(execute_write(db, Without(conn_view(db), SQLiteToDelete(w))))
    /\ saved' = Without(saved, MemoryToDelete(w))
    /\ last' = [op |-> "cleanup_workflow", workflow_id |-> w,
                ret |-> Cardinality(MemoryToDelete(w)),
                twin_ret |-> Cardinality(SQLiteToDelete(w))]
    /\ UNCHANGED <<backend, recovery_mode, now, heap, allocs, ctx, threads, twin,
                   workflow_counter, issued, lock>>

\* get_recovery_point, given what list_workflow_checkpoints returned
recovery_point(cps) ==
    IF recovery_mode = "MANUAL" THEN None
    ELSE IF Len(cps) = 0 THEN None
    ELSE IF recovery_mode = "RESUME_FROM_LAST" THEN resume_from_last(cps)
    ELSE IF recovery_mode = "RESTART_TASK" THEN restart_task(cps)
    ELSE IF recovery_mode = "SKIP_FAILED" THEN skip_failed(cps)
    ELSE cps[Len(cps)]

InitPair == Construct({"memory"}, RecoveryMode)

NextPair ==
    \/ \E w \in Workflows, i \in Steps : PairStart(w, i, DefaultArgs)
    \/ \E ref \in Refs, out \in OutputDicts : PairComplete(ref, out)
    \/ \E ref \in Refs : PairFail(ref, "boom")
    \/ \E ref \in Refs : PairMarkRecovered(ref)
    \/ \E w \in Workflows : PairCleanup(w)

SpecPair == InitPair /\ [][NextPair]_vars

(***************************************************************************)
(* SpecAsync: a `with` scope (context 1) and an `async with` scope         *)
(* (context 2) of steps of one workflow.  The body of the async scope can  *)
(* suspend at any await, so the other scope, direct starts and cleanups of *)
(* other tasks run between its entry and its exit.                         *)
(***************************************************************************)
InitAsync == Construct({"memory", "sqlite"}, {"RESUME_FROM_LAST"})

NextAsync ==
    \/ \E i \in Steps : ScopeEnter(1, "wa", i, DefaultArgs)
    \/ \E i \in Steps : AsyncEnter(2, "wa", i, DefaultArgs)
    \/ \E c \in CtxIds, out \in OutputDicts : SetOutput(c, out)
    \/ \E exc_val \in {None, Exception("boom")} : ScopeExit(1, exc_val)
    \/ \E exc_val \in {None, Exception("boom")} : AsyncExit(2, exc_val)
    \/ \E i \in Steps : Start("wa", i, DefaultArgs)
    \/ CleanupWorkflow("wa")

SpecAsync == InitAsync /\ [][NextAsync]_vars

(***************************************************************************)
(* SpecIds: checkpoints of workflows whose ids contain the separator of    *)
(* generate_checkpoint_id, so that the id of one workflow's step is a      *)
(* prefix of, or equal in shape to, the ids of another workflow.           *)
(***************************************************************************)
\* workflow ids, one of them the checkpoint id of a step of another
IdWorkflows == {"wa", "wa_step_0", "wa_step"}

InitIds == Construct({"memory", "sqlite"}, {"RESUME_FROM_LAST"})

NextIds ==
    \/ \E w \in IdWorkflows, i \in Steps : Start(w, i, DefaultArgs)
    \/ \E ref \in Refs : Complete(ref, Dict(<< <<"y", "2">> >>))
    \/ \E ref \in Refs : Fail(ref, "boom")
    \/ \E ref \in Refs : MarkRecovered(ref)
    \/ \E w \in IdWorkflows : CleanupWorkflow(w)

SpecIds == InitIds /\ [][NextIds]_vars

(***************************************************************************)
(* SpecWorkflowIds: generate_workflow_id called on several Checkpointer    *)
(* instances, which are constructed again now and then, while the          *)
(* millisecond clock stands still or advances.                             *)
(***************************************************************************)
\* the prefix arguments; "workflow" is the default
Prefixes == {"workflow", "workflow_0"}

\* mutant of incremented: the counter is not advanced
incremented_never(counters, k) == counters

\* mutant of incremented: one counter shared by all instances
incremented_class_level(counters, k) ==
    [j \in DOMAIN counters |-> Max({counters[i] : i \in DOMAIN counters}) + 1]

\* self._workflow_counter += 1 on instance k
incremented(counters, k) == [counters EXCEPT ![k] = counters[k] + 1]

\* f"{prefix}_{timestamp}_{self._workflow_counter}"
formatted_workflow_id(prefix, timestamp, counter) ==
    prefix \o "_" \o ToString(timestamp) \o "_" \o ToString(counter)

\* generate_workflow_id(prefix) on instance k; now is int(time.time() * 1000)
GenerateWorkflowId(k, prefix) ==
    /\ workflow_counter[k] < MaxCalls
    /\ workflow_counter' = incremented(workflow_counter, k)
    /\ issued' = [issued EXCEPT ![k] =
                    Append(@, [prefix |-> prefix, timestamp |-> now,
                               counter |-> workflow_counter'[k],
                               id |-> formatted_workflow_id(prefix, now, workflow_counter'[k])])]
    /\ last' = [op |-> "generate_workflow_id", instance |-> k, prefix |-> prefix,
                ret |-> formatted_workflow_id(prefix, now, workflow_counter'[k])]
    /\ UNCHANGED <<backend, recovery_mode, now, heap, allocs, checkpoints, db, ctx, saved,
                   threads, twin, lock>>

\* Checkpointer(...) is constructed in place of instance k, in the same
\* process or after a restart: self._workflow_counter = 0
NewInstance(k) ==
    /\ workflow_counter' = [workflow_counter EXCEPT ![k] = 0]
    /\ issued' = [issued EXCEPT ![k] = <<>>]
    /\ last' = [op |-> "construct", instance |-> k]
    /\ UNCHANGED <<backend, recovery_mode, now, heap, allocs, checkpoints, db, ctx, saved,
                   threads, twin, lock>>

InitWorkflowIds == Construct({"memory"}, {"RESUME_FROM_LAST"})

NextWorkflowIds ==
    \/ Tick
    \/ \E k \in Instances, prefix \in Prefixes : GenerateWorkflowId(k, prefix)
    \/ \E k \in Instances : NewInstance(k)

SpecWorkflowIds == InitWorkflowIds /\ [][NextWorkflowIds]_vars

(***************************************************************************)
(* SpecCodec: Checkpoint.to_dict and Checkpoint.from_dict.  A Python dict  *)
(* with string keys is a function on the keys it has.                      *)
(***************************************************************************)
\* the string tags of CheckpointStatus
StatusTags == {StatusValue(s) : s \in CheckpointStatus}

\* what a call that raises gives its caller
ValueError == [t |-> "ValueError"]
KeyError == [t |-> "KeyError"]

\* mutant of to_dict: the member's name instead of its value
to_dict_status_name(cp) ==
    [id          |-> cp.id,
     workflow_id |-> cp.workflow_id,
     step_name   |-> cp.step_name,
     step_index  |-> cp.step_index,
     status      |-> cp.status,
     input_data  |-> cp.input_data,
     output_data |-> cp.output_data,
     error       |-> cp.error,
     created_at  |-> cp.created_at,
     updated_at  |-> cp.updated_at,
     metadata    |-> cp.metadata]

\* Checkpoint.to_dict
to_dict(cp) ==
    [id          |-> cp.id,
     workflow_id |-> cp.workflow_id,
     step_name   |-> cp.step_name,
     step_index  |-> cp.step_index,
     status      |-> StatusValue(cp.status),
     input_data  |-> cp.input_data,
     output_data |-> cp.output_data,
     error       |-> cp.error,
     created_at  |-> cp.created_at,
     updated_at  |-> cp.updated_at,
     metadata    |-> cp.metadata]

\* data.get(key, default)
get(data, key, default) == IF key \in DOMAIN data THEN data[key] ELSE default

\* the keys from_dict subscripts
RequiredKeys == {"id", "workflow_id", "step_name", "step_index", "status", "input_data"}

\* the keys from_dict reads with .get
OptionalKeys == {"output_data", "error", "created_at", "updated_at", "metadata"}

\* mutant of from_dict: an unknown tag gives a PENDING record
from_dict_lenient(data) ==
    IF ~(RequiredKeys \subseteq DOMAIN data) THEN KeyError
    ELSE [id          |-> data["id"],
          workflow_id |-> data["workflow_id"],
          step_name   |-> data["step_name"],
          step_index  |-> data["step_index"],
          status      |-> IF data["status"] \in StatusTags
                          THEN StatusOfValue(data["status"]) ELSE "PENDING",
          input_data  |-> data["input_data"],
          output_data |-> get(data, "output_data", None),
          error       |-> get(data, "error", None),
          created_at  |-> get(data, "created_at", now),
          updated_at  |-> get(data, "updated_at", now),
          metadata    |-> get(data, "metadata", EmptyDict)]

\* Checkpoint.from_dict: the record, or the exception it raises
from_dict(data) ==
    IF ~(RequiredKeys \subseteq DOMAIN data) THEN KeyError
    ELSE IF data["status"] \notin StatusTags THEN ValueError
    ELSE [id          |-> data["id"],
          workflow_id |-> data["workflow_id"],
          step_name   |-> data["step_name"],
          step_index  |-> data["step_index"],
          status      |-> StatusOfValue(data["status"]),
          input_data  |-> data["input_data"],
          output_data |-> get(data, "output_data", None),
          error       |-> get(data, "error", None),
          created_at  |-> get(data, "created_at", now),
          updated_at  |-> get(data, "updated_at", now),
          metadata    |-> get(data, "metadata", EmptyDict)]

\* the Checkpoint values converted: every status with every payload
CodecCheckpoints ==
    {CheckpointValue("wa", 0, status, p) :
        status \in CheckpointStatus, p \in Payloads}

\* status entries that are not the tag of a member
BadTags == {"bogus", "PENDING", ""}

\* Checkpoint.from_dict(c.to_dict())
RoundTrip(c) ==
    /\ last' = [op |-> "round_trip", cp |-> c, ret |-> from_dict(to_dict(c))]
    /\ UNCHANGED <<backend, recovery_mode, now, heap, allocs, checkpoints, db, ctx, saved,
                   threads, twin, workflow_counter, issued, lock>>

\* from_dict of a map that lacks the keys of missing, c.to_dict() otherwise
FromDictWithout(c, missing) ==
    /\ last' = [op |-> "from_dict", data |-> Without(to_dict(c), missing),
                ret |-> from_dict(Without(to_dict(c), missing))]
    /\ UNCHANGED <<backend, recovery_mode, now, heap, allocs, checkpoints, db, ctx, saved,
                   threads, twin, workflow_counter, issued, lock>>

\* from_dict of a map whose status entry is tag
FromDictWithStatus(c, tag) ==
    /\ last' = [op |-> "from_dict", data |-> [to_dict(c) EXCEPT !["status"] = tag],
                ret |-> from_dict([to_dict(c) EXCEPT !["status"] = tag])]
    /\ UNCHANGED <<backend, recovery_mode, now, heap, allocs, checkpoints, db, ctx, saved,
                   threads, twin, workflow_counter, issued, lock>>

InitCodec == Construct({"memory"}, {"RESUME_FROM_LAST"})

NextCodec ==
    \/ Tick
    \/ \E c \in CodecCheckpoints : RoundTrip(c)
    \/ \E c \in CodecCheckpoints, missing \in SUBSET OptionalKeys :
          FromDictWithout(c, missing)
    \/ \E c \in CodecCheckpoints, tag \in BadTags \cup StatusTags :
          FromDictWithStatus(c, tag)

SpecCodec == InitCodec /\ [][NextCodec]_vars

(***************************************************************************)
(* SpecVolatile: threads call complete, fail, mark_recovered and cleanup   *)
(* on a Checkpointer with the memory backend while other threads read.     *)
(***************************************************************************)
InitVolatile == Construct({"memory"}, {"RESUME_FROM_LAST"})

NextVolatile ==
    \/ \E t \in Threads : ThreadStart(t, "wa", 0, DefaultArgs)
    \/ \E t \in Threads, ref \in Refs : ThreadComplete(t, ref, Dict(<< <<"y", "2">> >>))
    \/ \E t \in Threads, ref \in Refs : ThreadFail(t, ref, "boom")
    \/ \E t \in Threads, ref \in Refs : ThreadMarkRecovered(t, ref)
    \/ \E t \in Threads : ThreadAssign(t)
    \/ \E t \in Threads : ThreadSave(t)
    \/ \E t \in Threads : ThreadCleanup(t, "wa")
    \/ \E t \in Threads, m \in Reads \ {"get_last_checkpoint"} : ThreadRead(t, m, "wa", 0)

SpecVolatile == InitVolatile /\ [][NextVolatile]_vars

(***************************************************************************)
(* SpecMutex: threads call the methods of MemoryCheckpointBackend.  Each   *)
(* method is `with self._lock:` around its body: the thread waits for the  *)
(* lock, takes it, runs the body, which ends normally or by an exception,  *)
(* and the with statement releases the lock.  get_last_checkpoint has no   *)
(* with statement of its own: it calls list_workflow_checkpoints and then  *)
(* picks the last element.  Threads are scheduled fairly.                  *)
(***************************************************************************)
\* the methods of the backend
BackendMethods == {"save", "load", "list_workflow_checkpoints", "get_last_checkpoint",
                   "delete_workflow_checkpoints", "get_incomplete_workflows"}

\* the Checkpoint values the threads save
MutexCheckpoints ==
    {CheckpointValue("wa", 0, status,
                     [input_data |-> EmptyDict, output_data |-> None, error |-> None,
                      metadata |-> EmptyDict]) : status \in {"IN_PROGRESS", "COMPLETED"}}

\* a thread calls a method (save with the Checkpoint c it has constructed)
MutexCall(t, method, c) ==
    /\ threads[t].pc = "idle"
    /\ IF method = "save"
       THEN /\ allocs < MaxObjs
            /\ allocs' = allocs + 1
            /\ heap' = [heap EXCEPT ![allocs + 1] = c]
       ELSE UNCHANGED <<allocs, heap>>
    /\ threads' = [threads EXCEPT ![t] =
                     [Idle EXCEPT !.pc = "acquire", !.op = method,
                                  !.ref = IF method = "save" THEN allocs + 1 ELSE 0]]
    /\ UNCHANGED <<backend, recovery_mode, now, checkpoints, db, ctx, saved, last, twin,
                   workflow_counter, issued, lock>>

\* `with self._lock:` is entered: Lock.acquire() blocks while the lock is held
MutexAcquire(t) ==
    /\ threads[t].pc = "acquire"
    /\ lock = 0
    /\ lock' = t
    /\ threads' = [threads EXCEPT ![t].pc = "locked"]
    /\ UNCHANGED <<backend, recovery_mode, now, heap, allocs, checkpoints, db, ctx, saved,
                   last, twin, workflow_counter, issued>>

\* what the body of a method computes under the lock
locked_result(method) ==
    CASE method = "save" -> None
      [] method = "load" -> MemoryLoad(generate_checkpoint_id("wa", 0))
      [] method \in {"list_workflow_checkpoints", "get_last_checkpoint"} ->
             MemoryList("wa")
      [] method = "delete_workflow_checkpoints" -> Cardinality(MemoryToDelete("wa"))
      [] method = "get_incomplete_workflows" -> MemoryGetIncomplete

\* the body of the with statement runs to its end
MutexBody(t) ==
    /\ threads[t].pc = "locked"
    /\ CASE threads[t].op = "save" ->
                /\ MemorySave(threads[t].ref, heap[threads[t].ref])
                /\ saved' = (heap[threads[t].ref].id :>
                                [heap[threads[t].ref] EXCEPT !.updated_at = now]) @@ saved
         [] threads[t].op = "delete_workflow_checkpoints" ->
                /\ MemoryDelete("wa")
                /\ saved' = Without(saved, MemoryToDelete("wa"))
         [] OTHER -> UNCHANGED <<heap, checkpoints, db, saved>>
    /\ threads' = [threads EXCEPT
                     ![t].pc = "release",
                     ![t].pending = [kind |-> "result",
                                     ret |-> locked_result(threads[t].op)]]
    /\ UNCHANGED <<backend, recovery_mode, now, allocs, ctx, last, twin,
                   workflow_counter, issued, lock>>

\* the body of the with statement raises before it has changed anything
MutexRaise(t) ==
    /\ threads[t].pc = "locked"
    /\ threads' = [threads EXCEPT ![t].pc = "release",
                                  ![t].pending = [kind |-> "raised"]]
    /\ UNCHANGED <<backend, recovery_mode, now, heap, allocs, checkpoints, db, ctx, saved,
                   last, twin, workflow_counter, issued, lock>>

\* mutant of released: the lock stays with the thread
released_never(t) == t

\* Lock.release(): the value of self._lock after the with statement
released(t) == 0

\* the with statement is left, normally or by the exception, and the method
\* returns; get_last_checkpoint goes on with the list it got
MutexRelease(t) ==
    /\ threads[t].pc = "release"
    /\ lock' = released(t)
    /\ IF threads[t].op = "get_last_checkpoint" /\ threads[t].pending.kind = "result"
       THEN /\ threads' = [threads EXCEPT ![t].pc = "return"]
            /\ UNCHANGED last
       ELSE /\ threads' = [threads EXCEPT ![t] = Idle]
            /\ last' = [op |-> threads[t].op, thread |-> t,
                        outcome |-> threads[t].pending]
    /\ UNCHANGED <<backend, recovery_mode, now, heap, allocs, checkpoints, db, ctx, saved,
                   twin, workflow_counter, issued>>

\* get_last_checkpoint: return checkpoints[-1] if checkpoints else None
MutexReturn(t) ==
    /\ threads[t].pc = "return"
    /\ threads' = [threads EXCEPT ![t] = Idle]
    /\ last' = [op |-> threads[t].op, thread |-> t,
                outcome |-> [kind |-> "result",
                             ret |-> IF threads[t].pending.ret # <<>>
                                     THEN threads[t].pending.ret[Len(threads[t].pending.ret)]
                                     ELSE None]]
    /\ UNCHANGED <<backend, recovery_mode, now, heap, allocs, checkpoints, db, ctx, saved,
                   twin, workflow_counter, issued, lock>>

InitMutex == Construct({"memory"}, {"RESUME_FROM_LAST"})

NextMutex ==
    \/ \E t \in Threads, method \in BackendMethods, c \in MutexCheckpoints :
          MutexCall(t, method, c)
    \/ \E t \in Threads : MutexAcquire(t)
    \/ \E t \in Threads : MutexBody(t)
    \/ \E t \in Threads : MutexRaise(t)
    \/ \E t \in Threads : MutexRelease(t)
    \/ \E t \in Threads : MutexReturn(t)

\* a thread that can run its next statement runs it, and a thread that finds
\* the lock free again and again gets it
FairMutex ==
    \A t \in Threads :
        /\ SF_vars(MutexAcquire(t))
        /\ WF_vars(MutexBody(t) \/ MutexRaise(t))
        /\ WF_vars(MutexRelease(t))
        /\ WF_vars(MutexReturn(t))

SpecMutex == InitMutex /\ [][NextMutex]_vars /\ FairMutex

(***************************************************************************)
(* SpecFrames: each thread drives a workflow of its own, thread 1 "wa" and *)
(* thread 2 "wb", on either backend; their calls interleave statement by   *)
(* statement.                                                              *)
(***************************************************************************)
\* the workflow thread t drives
WorkflowOf(t) == IF t = 1 THEN "wa" ELSE "wb"

\* the handles thread t holds: those of its workflow
HandlesOf(t) == {ref \in Refs : heap[ref] # Free /\ heap[ref].workflow_id = WorkflowOf(t)}

InitFrames == Construct({"memory", "sqlite"}, {"RESUME_FROM_LAST"})

NextFrames ==
    \/ \E t \in 1..2 : ThreadStart(t, WorkflowOf(t), 0, DefaultArgs)
    \/ \E t \in 1..2 : \E ref \in HandlesOf(t) :
          ThreadComplete(t, ref, Dict(<< <<"y", "2">> >>))
    \/ \E t \in 1..2 : \E ref \in HandlesOf(t) : ThreadFail(t, ref, "boom")
    \/ \E t \in 1..2 : \E ref \in HandlesOf(t) : ThreadMarkRecovered(t, ref)
    \/ \E t \in 1..2 : ThreadAssign(t)
    \/ \E t \in 1..2 : ThreadSave(t)
    \/ \E t \in 1..2 : ThreadCleanup(t, WorkflowOf(t))
    \/ \E t \in 1..2 : ThreadCommit(t)

SpecFrames == InitFrames /\ [][NextFrames]_vars

(***************************************************************************)
(* SpecQueries: the three queries of the Checkpointer, in every recovery   *)
(* mode and on either backend, between writes of workflow "wa" and while   *)
(* the clock advances; "wb" is the workflow without a record.              *)
(***************************************************************************)
\* mutant of ListCheckpoints: the listed records are taken out of the store
ListCheckpoints_consuming(w) ==
    /\ BackendDelete(w)
    /\ last' = [op |-> "list_checkpoints", workflow_id |-> w, ret |-> BackendList(w)]
    /\ UNCHANGED <<backend, recovery_mode, now, allocs, ctx, threads,
                 twin, workflow_counter, issued, lock>>

ListCheckpoints(w) ==
    /\ last' = [op |-> "list_checkpoints", workflow_id |-> w, ret |-> BackendList(w)]
    /\ UNCHANGED <<backend, recovery_mode, now, heap, allocs, checkpoints, db, ctx, saved, threads,
                 twin, workflow_counter, issued, lock>>

GetIncompleteWorkflows ==
    /\ last' = [op |-> "get_incomplete_workflows", ret |-> BackendGetIncomplete]
    /\ UNCHANGED <<backend, recovery_mode, now, heap, allocs, checkpoints, db, ctx, saved, threads,
                 twin, workflow_counter, issued, lock>>

InitQueries == Construct({"memory", "sqlite"}, RecoveryMode)

NextQueries ==
    \/ Tick
    \/ \E i \in Steps : Start("wa", i, DefaultArgs)
    \/ \E ref \in Refs : Complete(ref, Dict(<< <<"y", "2">> >>))
    \/ \E ref \in Refs : Fail(ref, "boom")
    \/ \E ref \in Refs : MarkRecovered(ref)
    \/ CleanupWorkflow("wa")
    \/ \E w \in Workflows : GetRecoveryPoint(w)
    \/ \E w \in Workflows : ListCheckpoints(w)
    \/ GetIncompleteWorkflows

SpecQueries == InitQueries /\ [][NextQueries]_vars

(***************************************************************************)
(* SpecRace: generate_workflow_id called from two threads on one           *)
(* Checkpointer (instance 1).  The method takes no lock; the interpreter   *)
(* may switch threads at the calls time.time() and int(...) that stand     *)
(* between the increment of the counter and the f-string that reads the    *)
(* counter again.  The increment itself is taken as one step.              *)
(***************************************************************************)
\* thread t enters generate_workflow_id(prefix)
RaceCall(t, prefix) ==
    /\ threads[t].pc = "idle"
    /\ workflow_counter[1] < MaxCalls
    /\ threads' = [threads EXCEPT ![t] =
                     [pc |-> "increment", op |-> "generate_workflow_id",
                      prefix |-> prefix]]
    /\ UNCHANGED <<backend, recovery_mode, now, heap, allocs, checkpoints, db, ctx, saved,
                   last, twin, workflow_counter, issued, lock>>

\* self._workflow_counter += 1
RaceIncrement(t) ==
    /\ threads[t].pc = "increment"
    /\ workflow_counter' = incremented(workflow_counter, 1)
    /\ threads' = [threads EXCEPT ![t] =
                     [pc |-> "timestamp", op |-> "generate_workflow_id",
                      prefix |-> threads[t].prefix]]
    /\ UNCHANGED <<backend, recovery_mode, now, heap, allocs, checkpoints, db, ctx, saved,
                   last, twin, issued, lock>>

\* timestamp = int(time.time() * 1000)
RaceTimestamp(t) ==
    /\ threads[t].pc = "timestamp"
    /\ threads' = [threads EXCEPT ![t] =
                     [pc |-> "format", op |-> "generate_workflow_id",
                      prefix |-> threads[t].prefix, timestamp |-> now]]
    /\ UNCHANGED <<backend, recovery_mode, now, heap, allocs, checkpoints, db, ctx, saved,
                   last, twin, workflow_counter, issued, lock>>

\* return f"{prefix}_{timestamp}_{self._workflow_counter}": the counter is
\* read from the instance when the string is built
RaceFormat(t) ==
    /\ threads[t].pc = "format"
    /\ LET id == formatted_workflow_id(threads[t].prefix, threads[t].timestamp,
                                       workflow_counter[1])
       IN  /\ issued' = [issued EXCEPT ![1] =
                           Append(@, [prefix |-> threads[t].prefix,
                                      timestamp |-> threads[t].timestamp,
                                      counter |-> workflow_counter[1],
                                      id |-> id])]
           /\ last' = [op |-> "generate_workflow_id", instance |-> 1, thread |-> t,
                       prefix |-> threads[t].prefix, ret |-> id]
    /\ threads' = [threads EXCEPT ![t] = Idle]
    /\ UNCHANGED <<backend, recovery_mode, now, heap, allocs, checkpoints, db, ctx, saved,
                   twin, workflow_counter, lock>>

InitRace == Construct({"memory"}, {"RESUME_FROM_LAST"})

NextRace ==
    \/ Tick
    \/ \E t \in Threads, prefix \in Prefixes : RaceCall(t, prefix)
    \/ \E t \in Threads : RaceIncrement(t)
    \/ \E t \in Threads : RaceTimestamp(t)
    \/ \E t \in Threads : RaceFormat(t)

SpecRace == InitRace /\ [][NextRace]_vars

(***************************************************************************)
(* SpecStale: handles that outlive their record.  Step 0 of "wa" is        *)
(* started, started again with other arguments, cleaned up, and completed, *)
(* failed or marked recovered through any handle still held.  `last`       *)
(* keeps the handle as it was when the call was made and the record that   *)
(* was stored under its id at that time.                                   *)
(***************************************************************************)
HandleOps == {"checkpoint_complete", "checkpoint_failed", "mark_recovered"}

\* one of checkpoint_complete(cp, {"y": 2}), checkpoint_failed(cp, "boom")
\* and mark_recovered(cp), cp being the object ref
HandleCall(op, ref) ==
    /\ heap[ref] # Free
    /\ CASE op = "checkpoint_complete" ->
                checkpoint_complete(ref, Dict(<< <<"y", "2">> >>))
         [] op = "checkpoint_failed" -> checkpoint_failed(ref, Str("boom"))
         [] op = "mark_recovered" -> mark_recovered(ref)
    /\ last' = [op |-> op, ref |-> ref, handle |-> heap[ref],
                before |-> BackendLoad(heap[ref].id)]
    /\ UNCHANGED <<backend, recovery_mode, now, allocs, ctx, threads,
                 twin, workflow_counter, issued, lock>>

InitStale == Construct({"memory", "sqlite"}, {"RESUME_FROM_LAST"})

NextStale ==
    \/ Tick
    \/ \E a \in StartArgs : Start("wa", 0, a)
    \/ \E op \in HandleOps, ref \in Refs : HandleCall(op, ref)
    \/ CleanupWorkflow("wa")

SpecStale == InitStale /\ [][NextStale]_vars

(***************************************************************************)
(* Claims.                                                                 *)
(***************************************************************************)
\* the ids the backend holds a record for
StoredIds ==
    IF backend = "memory" THEN DOMAIN checkpoints ELSE DOMAIN conn_view(db)

\* the ids of the stored records of workflow w at step i
IdsOf(w, i) ==
    {id \in StoredIds : /\ BackendLoad(id).workflow_id = w
                        /\ BackendLoad(id).step_index = i}

\* the stored records of workflow w
RecordsOf(w) ==
    {BackendLoad(id) : id \in {k \in StoredIds : BackendLoad(k).workflow_id = w}}

\* the record of S with the greatest step_index
Greatest(S) == CHOOSE r \in S : \A q \in S : q.step_index <= r.step_index

\* C1: after any sequence of start/complete/fail/mark_recovered calls the
\* backend holds at most one record per (workflow_id, step_index); after a
\* start call the one record of its pair has the step_name, input_data and
\* metadata of that call (an absent metadata stored as the empty dict) and
\* status IN_PROGRESS.
C1_OneRecordPerStep ==
    /\ \A w \in Workflows, i \in Steps : Cardinality(IdsOf(w, i)) <= 1
    /\ last.op = "checkpoint_start" =>
         /\ Cardinality(IdsOf(last.workflow_id, last.step_index)) = 1
         /\ \A id \in IdsOf(last.workflow_id, last.step_index) :
              LET r == BackendLoad(id)
              IN  /\ r.step_name = last.args.step_name
                  /\ r.input_data = last.args.input_data
                  /\ r.metadata = (IF last.args.metadata = None THEN EmptyDict
                                   ELSE last.args.metadata)
                  /\ r.status = "IN_PROGRESS"

\* C1 witness: a second start of a pair, with other arguments than the first,
\* on a record the first attempt had completed.
C1_Witness ==
    /\ last.op = "checkpoint_start"
    /\ last.ref = 2
    /\ heap[1].id = heap[2].id
    /\ heap[1].step_name # heap[2].step_name
    /\ heap[1].status = "COMPLETED"

\* the first Checkpoint object constructed for an id
FirstRef(id) ==
    CHOOSE r \in Refs : /\ heap[r] # Free
                        /\ heap[r].id = id
                        /\ \A q \in 1..(r - 1) : heap[q].id # id

\* C2: the created_at of the stored record of a (workflow_id, step_index) is
\* the created_at the first start call of that pair wrote.
C2_CreatedAtPreserved ==
    \A id \in StoredIds :
        BackendLoad(id).created_at = heap[FirstRef(id)].created_at

\* C3: with RESUME_FROM_LAST, get_recovery_point(w) returns the stored record
\* of w with the greatest step_index whatever its status, and absent exactly
\* when w has no stored record.
C3_ResumeFromLast ==
    (last.op = "get_recovery_point" /\ recovery_mode = "RESUME_FROM_LAST") =>
        LET R == RecordsOf(last.workflow_id)
        IN  /\ (last.ret = None) <=> (R = {})
            /\ R # {} => last.ret = Greatest(R)

\* C3 witness: the greatest step of two is returned, though it is RECOVERED
\* and the lower one IN_PROGRESS.
C3_Witness ==
    /\ last.op = "get_recovery_point"
    /\ recovery_mode = "RESUME_FROM_LAST"
    /\ Cardinality(RecordsOf(last.workflow_id)) = 2
    /\ last.ret # None
    /\ last.ret.step_index = 1
    /\ last.ret.status = "RECOVERED"
    /\ \E r \in RecordsOf(last.workflow_id) : r.status = "IN_PROGRESS"

C5_SkipFailed ==
    (last.op = "get_recovery_point" /\ recovery_mode = "SKIP_FAILED") =>
        LET R == RecordsOf(last.workflow_id)
            M == {r \in R : r.status = "COMPLETED"}
        IN  /\ last.ret = (IF M # {} THEN Greatest(M) ELSE None)
            /\ last.ret # None => last.ret.status = "COMPLETED"

\* C5 witness: w has a FAILED and a RECOVERED record, no COMPLETED one, and
\* absent is returned.
C5_Witness ==
    /\ last.op = "get_recovery_point"
    /\ recovery_mode = "SKIP_FAILED"
    /\ last.ret = None
    /\ \E r \in RecordsOf(last.workflow_id) : r.status = "FAILED"
    /\ \E r \in RecordsOf(last.workflow_id) : r.status = "RECOVERED"

\* C6: with MANUAL, get_recovery_point(w) returns absent for every workflow
\* and every stored state.
C6_Manual ==
    (last.op = "get_recovery_point" /\ recovery_mode = "MANUAL") =>
        last.ret = None

\* C6 witness: the workflow asked for has two stored records.
C6_Witness ==
    /\ last.op = "get_recovery_point"
    /\ recovery_mode = "MANUAL"
    /\ Cardinality(RecordsOf(last.workflow_id)) = 2
    /\ last.ret = None

\* the stored record of the checkpoint a scope started
ScopeRecord(c) == BackendLoad(heap[ctx[c].checkpoint].id)

\* C7: for every scope that was entered and has exited, normally or by an
\* exception of the body, __exit__ made exactly one finalizing call on the
\* checkpoint started at entry, a complete or a fail, and the checkpoint is
\* not left IN_PROGRESS: at the exit its stored record is COMPLETED or FAILED.
C7_FinalizedOnce ==
    /\ \A c \in CtxIds :
         (ctx[c] # Free /\ ctx[c].scope = "exited") =>
            /\ Len(ctx[c].calls) = 1
            /\ ctx[c].calls[1].f \in {"checkpoint_complete", "checkpoint_failed"}
            /\ heap[ctx[c].checkpoint].status \in {"COMPLETED", "FAILED"}
    /\ last.op = "scope_exit" =>
         ScopeRecord(last.c).status \in {"COMPLETED", "FAILED"}

\* C7 witness: two scopes of the same step have exited, one normally and one
\* by an exception.
C7_Witness ==
    /\ \A c \in CtxIds : ctx[c] # Free /\ ctx[c].scope = "exited"
    /\ \E c \in CtxIds : ctx[c].propagated # None
    /\ \E c \in CtxIds : ctx[c].propagated = None
    /\ \A c, d \in CtxIds : heap[ctx[c].checkpoint].id = heap[ctx[d].checkpoint].id

\* C8: when a scope exits without an exception, the stored record of its
\* step is COMPLETED and its output_data is the value passed to set_output,
\* or the empty dict if set_output was not called, on both backends.
C8_CompletedWithOutput ==
    (last.op = "scope_exit" /\ last.exc_val = None) =>
        /\ ScopeRecord(last.c).status = "COMPLETED"
        /\ ScopeRecord(last.c).output_data =
              (IF ctx[last.c].output # None THEN ctx[last.c].output ELSE EmptyDict)

\* C9: when the body of a scope raises, the stored record is FAILED with
\* error equal to the exception's message, and the exception that leaves the
\* scope is the body's own.
C9_FailureRecordedAndPropagated ==
    (last.op = "scope_exit" /\ last.exc_val # None) =>
        /\ ScopeRecord(last.c).status = "FAILED"
        /\ ScopeRecord(last.c).error = Str(last.exc_val.v)
        /\ ctx[last.c].propagated = last.exc_val

\* C9 witness: the body recorded an output and then raised.
C9_Witness ==
    /\ last.op = "scope_exit"
    /\ last.exc_val = Exception("boom")
    /\ ctx[last.c].output # None
    /\ ScopeRecord(last.c).status = "FAILED"
    /\ ctx[last.c].propagated = Exception("boom")

\* C10: every record whose save has returned on one instance of the SQLite
\* backend is returned with the same field values by load and by
\* list_workflow_checkpoints of an instance opened afterwards on the same
\* path, also when the process crashed right after the save returned.
C10_Durable ==
    last.op = "restart" =>
        /\ \A id \in DOMAIN saved : SQLiteLoad(id) = saved[id]
        /\ \A w \in Workflows :
             {SQLiteList(w)[k] : k \in 1..Len(SQLiteList(w))}
                 = {saved[id] : id \in {j \in DOMAIN saved : saved[j].workflow_id = w}}

\* C11: when the process crashes while step i of a workflow run step by step
\* is started and neither completed nor failed, the new process finds the
\* record of (w, i) IN_PROGRESS and every lower step of w COMPLETED; w is in
\* get_incomplete_workflows(), and get_recovery_point(w) under
\* RESUME_FROM_LAST and under RESTART_TASK returns the record of step i.
C11_CrashRecovery ==
    /\ last.op = "crash" =>
         \A f \in last.in_flight :
            /\ SQLiteLoad(generate_checkpoint_id(f.workflow_id, f.step_index)) # None
            /\ SQLiteLoad(generate_checkpoint_id(f.workflow_id, f.step_index)).status
                   = "IN_PROGRESS"
            /\ \A j \in 0..(f.step_index - 1) :
                 /\ SQLiteLoad(generate_checkpoint_id(f.workflow_id, j)) # None
                 /\ SQLiteLoad(generate_checkpoint_id(f.workflow_id, j)).status
                        = "COMPLETED"
    /\ last.op = "check_for_incomplete_workflows" =>
         \A f \in last.in_flight :
            /\ f.workflow_id \in last.incomplete
            /\ recovery_mode \in {"RESUME_FROM_LAST", "RESTART_TASK"} =>
                 /\ last.recovery[f.workflow_id] # None
                 /\ last.recovery[f.workflow_id].id
                        = generate_checkpoint_id(f.workflow_id, f.step_index)
                 /\ last.recovery[f.workflow_id].step_index = f.step_index
                 /\ last.recovery[f.workflow_id].status = "IN_PROGRESS"

\* C11 witness: the crash came in step 1 of a workflow whose step 0 had
\* completed, and the new process, under RESTART_TASK, has looked for
\* incomplete workflows.
C11_Witness ==
    /\ last.op = "check_for_incomplete_workflows"
    /\ recovery_mode = "RESTART_TASK"
    /\ \E f \in last.in_flight :
          /\ f.step_index = 1
          /\ last.recovery[f.workflow_id].step_index = 1
          /\ SQLiteLoad(generate_checkpoint_id(f.workflow_id, 0)).status = "COMPLETED"

\* the records a read must return when every returned save is visible and
\* nothing else is: the checkpoints as the last returned saves wrote them
SavedOf(w) == {saved[id] : id \in {j \in DOMAIN saved : saved[j].workflow_id = w}}

\* C12: a load, list_workflow_checkpoints, get_last_checkpoint or
\* get_incomplete_workflows call of any thread returns the records as the
\* last returned save of each id wrote them, less the ids deleted since.
C12_ReadAfterWrite ==
    /\ last.op = "load" =>
         last.ret = (IF last.id \in DOMAIN saved THEN saved[last.id] ELSE None)
    /\ last.op = "list_workflow_checkpoints" =>
         {last.ret[k] : k \in 1..Len(last.ret)} = SavedOf(last.workflow_id)
    /\ last.op = "get_last_checkpoint" =>
         last.ret = (IF SavedOf(last.workflow_id) = {} THEN None
                     ELSE Greatest(SavedOf(last.workflow_id)))
    /\ last.op = "get_incomplete_workflows" =>
         last.ret = {saved[id].workflow_id : id \in
                        {j \in DOMAIN saved :
                            saved[j].status \in {"PENDING", "IN_PROGRESS"}}}

\* C13: after save(c) has returned, load(c.id) returns a record equal to c
\* in every field except updated_at, on both backends and for every c, also
\* with output_data the empty dict, output_data None and metadata empty.
C13_RoundTrip ==
    last.op = "save" =>
        /\ BackendLoad(last.cp.id) # None
        /\ [BackendLoad(last.cp.id) EXCEPT !.updated_at = 0]
               = [last.cp EXCEPT !.updated_at = 0]

\* what list_workflow_checkpoints(w) must return: the stored records of w,
\* each once, in ascending step_index order
IsListingOf(L, w) ==
    /\ {L[k] : k \in 1..Len(L)} = RecordsOf(w)
    /\ Len(L) = Cardinality(RecordsOf(w))
    /\ \A k \in 1..Len(L) : L[k].workflow_id = w
    /\ \A k, l \in 1..Len(L) : k < l => L[k].step_index < L[l].step_index

\* C14: in every reachable state and for every order of the saves,
\* list_workflow_checkpoints(w) returns exactly the stored records of w, none
\* of another workflow, each once, in ascending step_index order.
C14_ListOrdered ==
    /\ \A w \in Workflows : IsListingOf(BackendList(w), w)
    /\ last.op = "list_workflow_checkpoints" => IsListingOf(last.ret, last.workflow_id)

\* C14 witness: step 1 of a workflow was saved before its step 0, and the
\* list call returned step 0 first.
C14_Witness ==
    /\ last.op = "list_workflow_checkpoints"
    /\ Len(last.ret) = 2
    /\ last.ret[1].step_index = 0
    /\ heap[1] # Free /\ heap[1].workflow_id = last.workflow_id
    /\ heap[1].step_index = 1

\* the workflows with a stored record that is PENDING or IN_PROGRESS
IncompleteStored ==
    {w \in Workflows : \E r \in RecordsOf(w) : r.status \in {"PENDING", "IN_PROGRESS"}}

\* C15: get_incomplete_workflows() returns a workflow id if and only if the
\* workflow has a stored record whose status is PENDING or IN_PROGRESS (the
\* result is the set of these ids, each in it once); a workflow whose
\* records are all COMPLETED or FAILED is not returned.
C15_Incomplete ==
    /\ BackendGetIncomplete = IncompleteStored
    /\ last.op = "get_incomplete_workflows" => last.ret = IncompleteStored

\* C15 witness: the call returned the workflow whose only record is PENDING
\* and not the one whose record is FAILED.
C15_Witness ==
    /\ last.op = "get_incomplete_workflows"
    /\ last.ret = {"wa"}
    /\ \A r \in RecordsOf("wa") : r.status = "PENDING"
    /\ \E r \in RecordsOf("wb") : r.status = "FAILED"

\* the stored records, by id
Stored == [id \in StoredIds |-> BackendLoad(id)]

\* C16: cleanup_workflow(w) returns the number of records stored for w when
\* it is called and removes them all, so that list_checkpoints(w) is empty
\* right after it; the records of other workflows stay; a second
\* cleanup_workflow(w) with no write in between returns 0 and changes nothing.
C16_Cleanup ==
    [][\A w \in Workflows :
          (last'.op = "cleanup_workflow" /\ last'.workflow_id = w /\ last' # last) =>
             /\ last'.ret = Cardinality(RecordsOf(w))
             /\ BackendList(w)' = <<>>
             /\ Stored' = [id \in {k \in StoredIds : BackendLoad(k).workflow_id # w}
                               |-> BackendLoad(id)]
             /\ (last.op = "cleanup_workflow" /\ last.workflow_id = w) =>
                   /\ last'.ret = 0
                   /\ Stored' = Stored]_vars

\* C16 witness: cleanup_workflow returned 2 for a workflow whose steps 0 and
\* 1 were stored, and the list of the workflow is empty.
C16_Witness ==
    /\ last.op = "cleanup_workflow"
    /\ last.ret = 2
    /\ BackendList(last.workflow_id) = <<>>
    /\ \A r \in Refs : heap[r] # Free /\ heap[r].workflow_id = last.workflow_id

\* C17: in every state reached by start, complete, fail and mark_recovered
\* calls in any order on any handle, a stored record has an error if and only
\* if its status is FAILED.
C17_ErrorIffFailed ==
    \A id \in StoredIds :
        (BackendLoad(id).error # None) <=> (BackendLoad(id).status = "FAILED")

\* C18: with a clock that never goes backwards, every stored record has
\* created_at <= updated_at in every state reached by the Checkpointer's
\* operations.
C18_CreatedBeforeUpdated ==
    \A id \in StoredIds : BackendLoad(id).created_at <= BackendLoad(id).updated_at

\* C18 witness: a record created at time 0 was completed at time 1.
C18_Witness ==
    \E id \in StoredIds :
        /\ BackendLoad(id).status = "COMPLETED"
        /\ BackendLoad(id).created_at = 0
        /\ BackendLoad(id).updated_at = 1

\* C19: get_last_checkpoint(w) returns the stored record of w with the
\* greatest step_index, which is the last element of
\* list_workflow_checkpoints(w), and returns absent exactly when w has no
\* stored record, on both backends.
C19_GetLast ==
    /\ \A w \in Workflows :
         /\ (BackendGetLast(w) = None) <=> (BackendList(w) = <<>>)
         /\ BackendList(w) # <<>> =>
              /\ BackendGetLast(w) = BackendList(w)[Len(BackendList(w))]
              /\ BackendGetLast(w) = Greatest(RecordsOf(w))
    /\ last.op = "get_last_checkpoint" =>
         last.ret = (IF RecordsOf(last.workflow_id) = {} THEN None
                     ELSE Greatest(RecordsOf(last.workflow_id)))

\* C19 witness: the call returned step 1 of a workflow that also has step 0
\* stored, saved after step 1.
C19_Witness ==
    /\ last.op = "get_last_checkpoint"
    /\ last.ret # None
    /\ last.ret.step_index = 1
    /\ Cardinality(RecordsOf(last.workflow_id)) = 2
    /\ heap[2] # Free /\ heap[2].step_index = 0

\* C20: start is enabled in every state, whatever is stored for its step, and
\* leaves the stored record of (w, i) IN_PROGRESS with no output_data and no
\* error, also when the record was COMPLETED before.
C20_StartAlwaysInProgress ==
    /\ allocs < MaxObjs =>
         \A w \in Workflows, i \in Steps, a \in StartArgs : ENABLED Start(w, i, a)
    /\ last.op = "checkpoint_start" =>
         LET r == BackendLoad(generate_checkpoint_id(last.workflow_id, last.step_index))
         IN  /\ r # None
             /\ r.status = "IN_PROGRESS"
             /\ r.output_data = None
             /\ r.error = None

\* C20 witness: start on a step whose record was COMPLETED with an output
\* and, from an earlier failure, an error.
C20_Witness ==
    /\ last.op = "checkpoint_start"
    /\ last.ref = 2
    /\ heap[1].id = heap[2].id
    /\ heap[1].status = "COMPLETED"
    /\ heap[1].output_data # None
    /\ heap[1].error # None
    /\ BackendLoad(heap[2].id).status = "IN_PROGRESS"

\* the handle ref is current: the last returned save for its id wrote the
\* field values the handle has
Current(ref) ==
    /\ heap[ref] # Free
    /\ heap[ref].id \in DOMAIN saved
    /\ saved[heap[ref].id] = heap[ref]

\* the fields complete and fail must leave alone
FrameOf(r) ==
    <<r.id, r.workflow_id, r.step_name, r.step_index, r.input_data, r.metadata,
      r.created_at>>

\* C21: complete(c, out) on a handle in status IN_PROGRESS leaves the stored
\* record of c.id COMPLETED with output_data = out, and fail(c, err) leaves it
\* FAILED with error = err; id, workflow_id, step_name, step_index,
\* input_data, metadata and created_at of the record are as before the call.
C21_CompleteFailFrame ==
    [][\A ref \in Refs :
          (/\ Current(ref)
           /\ heap[ref].status = "IN_PROGRESS"
           /\ last'.op \in {"checkpoint_complete", "checkpoint_failed"}
           /\ last'.ref = ref) =>
             /\ BackendLoad(heap[ref].id)' # None
             /\ FrameOf(BackendLoad(heap[ref].id)') = FrameOf(BackendLoad(heap[ref].id))
             /\ last'.op = "checkpoint_complete" =>
                   /\ BackendLoad(heap[ref].id)'.status = "COMPLETED"
                   /\ BackendLoad(heap[ref].id)'.output_data = last'.output_data
             /\ last'.op = "checkpoint_failed" =>
                   /\ BackendLoad(heap[ref].id)'.status = "FAILED"
                   /\ BackendLoad(heap[ref].id)'.error = last'.error]_vars

C23_NeverPending ==
    /\ \A id \in StoredIds : BackendLoad(id).status # "PENDING"
    /\ \A ref \in Refs : heap[ref] # Free => heap[ref].status # "PENDING"

\* C23 witness: a scope has exited by an exception, a record started
\* directly was marked recovered, and the two are stored side by side.
C23_Witness ==
    /\ \E c \in CtxIds : /\ ctx[c] # Free
                         /\ ctx[c].scope = "exited"
                         /\ ScopeRecord(c) # None
                         /\ ScopeRecord(c).status = "FAILED"
    /\ \E id \in StoredIds : BackendLoad(id).status = "RECOVERED"

\* C24: when the save of a start, complete, fail or mark_recovered call
\* raises, the call has attempted the save once and the records the backend
\* returns are exactly those it returned before the call.
C24_SaveFailure ==
    [][("raised" \in DOMAIN last') =>
          /\ last'.attempts = 1
          /\ Stored' = Stored]_vars

\* the calls that look a record up
Lookups == {"load", "get_last_checkpoint", "get_recovery_point"}

\* C25: load of an id with no record, get_last_checkpoint of a workflow with
\* no record and get_recovery_point of a workflow with no record return None
\* (a value, not an exception), and no lookup changes the stored records or
\* any other state of the Checkpointer.
C25_AbsentIsNone ==
    /\ [](/\ (last.op = "load" /\ last.id \notin StoredIds) => last.ret = None
          /\ (last.op = "get_last_checkpoint" /\ RecordsOf(last.workflow_id) = {})
                => last.ret = None
          /\ (last.op = "get_recovery_point" /\ RecordsOf(last.workflow_id) = {})
                => last.ret = None)
    /\ [][(last'.op \in Lookups /\ last' # last) =>
             /\ Stored' = Stored
             /\ UNCHANGED <<backend, recovery_mode, heap, checkpoints, db, saved>>]_vars

\* C25 witness: get_recovery_point, in a mode other than MANUAL, has returned
\* None for a workflow with no record while records of the other workflow
\* are stored.
C25_Witness ==
    /\ last.op = "get_recovery_point"
    /\ recovery_mode # "MANUAL"
    /\ RecordsOf(last.workflow_id) = {}
    /\ StoredIds # {}
    /\ last.ret = None

\* C25 witness of the backend lookups: load of an absent id
C25_WitnessLoad ==
    /\ last.op = "load"
    /\ last.id \notin StoredIds
    /\ StoredIds # {}
    /\ last.ret = None

\* a checkpoint with its timestamps left out
Untimed(cp) ==
    IF cp = None THEN None ELSE [cp EXCEPT !.created_at = 0, !.updated_at = 0]

\* a list of checkpoints with their timestamps left out
UntimedList(cps) == [k \in 1..Len(cps) |-> Untimed(cps[k])]

\* C26: after every call of a sequence issued to a Checkpointer on the memory
\* backend and to one on the SQLite backend, the two return the same
\* list_checkpoints of every workflow (all fields but the timestamps), the
\* same get_recovery_point, the same get_incomplete_workflows, and
\* cleanup_workflow has returned the same count.
C26_BackendsAgree ==
    /\ \A w \in Workflows :
          /\ UntimedList(MemoryList(w)) = UntimedList(SQLiteList(w))
          /\ Untimed(recovery_point(MemoryList(w)))
                = Untimed(recovery_point(SQLiteList(w)))
    /\ MemoryGetIncomplete = SQLiteGetIncomplete
    /\ last.op = "cleanup_workflow" => last.ret = last.twin_ret

\* the output a scope that exits normally records
OutputOf(c) == IF ctx[c].output # None THEN ctx[c].output ELSE EmptyDict

\* C27: the stored record of the step is IN_PROGRESS right after the entry of
\* an async scope, COMPLETED with the output set in the body (the empty dict
\* if none was set) right after its normal exit, and FAILED with the
\* exception's message right after its exit by an exception, which leaves the
\* scope; and an async scope and a sync scope of the same step that ended in
\* the same way made the same call and left objects equal but for the time.
C27_AsyncAsSync ==
    /\ last.op = "scope_aenter" => ScopeRecord(last.c).status = "IN_PROGRESS"
    /\ (last.op = "scope_aexit" /\ last.exc_val = None) =>
          /\ ScopeRecord(last.c).status = "COMPLETED"
          /\ ScopeRecord(last.c).output_data = OutputOf(last.c)
    /\ (last.op = "scope_aexit" /\ last.exc_val # None) =>
          /\ ScopeRecord(last.c).status = "FAILED"
          /\ ScopeRecord(last.c).error = Str(last.exc_val.v)
          /\ ctx[last.c].propagated = last.exc_val
    /\ (/\ \A c \in CtxIds : ctx[c] # Free /\ ctx[c].scope = "exited"
        /\ ctx[1].step_index = ctx[2].step_index
        /\ ctx[1].output = ctx[2].output
        /\ ctx[1].propagated = ctx[2].propagated) =>
          /\ ctx[1].calls = ctx[2].calls
          /\ Untimed(heap[ctx[1].checkpoint]) = Untimed(heap[ctx[2].checkpoint])

\* the (workflow_id, step_index) of a checkpoint
PairOf(cp) == <<cp.workflow_id, cp.step_index>>

\* the calls of the Checkpointer that write one record
Writes == {"checkpoint_start", "checkpoint_complete", "checkpoint_failed",
           "mark_recovered"}

\* C28: generate_checkpoint_id gives equal ids to equal (workflow_id,
\* step_index) pairs and distinct ids to distinct pairs; every stored record
\* is stored under generate_checkpoint_id of its own pair; and a start,
\* complete, fail or mark_recovered call changes or replaces no stored record
\* of a pair other than the one it writes.
C28_IdInjective ==
    /\ [](/\ \A p, q \in IdWorkflows \X Steps :
                (generate_checkpoint_id(p[1], p[2]) = generate_checkpoint_id(q[1], q[2]))
                    <=> (p = q)
          /\ \A r, q \in Refs :
                (heap[r] # Free /\ heap[q] # Free) =>
                   ((heap[r].id = heap[q].id) <=> (PairOf(heap[r]) = PairOf(heap[q])))
          /\ \A id \in StoredIds :
                /\ BackendLoad(id).id = id
                /\ id = generate_checkpoint_id(BackendLoad(id).workflow_id,
                                               BackendLoad(id).step_index))
    /\ [][last'.op \in Writes =>
             \A id \in StoredIds :
                (id \notin StoredIds' \/ BackendLoad(id)' # BackendLoad(id)) =>
                   PairOf(heap'[last'.ref]) = PairOf(BackendLoad(id))]_vars

\* C28 witness: step 0 of workflow "wa" and step 1 of the workflow named
\* "wa_step_0" are both stored, the second written after the first, and the
\* first is still as its start wrote it.
C28_Witness ==
    /\ last.op = "checkpoint_complete"
    /\ heap[last.ref].id = "wa_step_0_step_1"
    /\ StoredIds = {"wa_step_0", "wa_step_0_step_1"}
    /\ BackendLoad("wa_step_0").workflow_id = "wa"
    /\ BackendLoad("wa_step_0").status = "IN_PROGRESS"
    /\ BackendLoad("wa_step_0_step_1").workflow_id = "wa_step_0"

\* C29: the j-th generate_workflow_id call on an instance uses the counter
\* value j, and the ids one instance has returned are pairwise distinct,
\* also for calls in the same millisecond and with different prefixes.
C29_CounterSequence ==
    \A k \in Instances :
        /\ \A j \in 1..Len(issued[k]) : issued[k][j].counter = j
        /\ \A i, j \in 1..Len(issued[k]) :
              i # j => issued[k][i].id # issued[k][j].id

\* C29 witness: three calls on one instance in the same millisecond, with
\* both prefixes.
C29_Witness ==
    \E k \in Instances :
        /\ Len(issued[k]) = 3
        /\ \A j \in 1..3 : issued[k][j].timestamp = issued[k][1].timestamp
        /\ {issued[k][j].prefix : j \in 1..3} = Prefixes

\* C30: a generate_workflow_id call on one instance leaves the counter of
\* every other instance unchanged; a newly constructed instance has the
\* counter at 0, so its first call uses 1; and two instances whose first
\* calls have the same prefix and the same millisecond have returned the
\* same workflow id.
C30_CounterPerInstance ==
    /\ [](/\ last.op = "construct" => workflow_counter[last.instance] = 0
          /\ \A k \in Instances : issued[k] # <<>> => issued[k][1].counter = 1
          /\ \A k, j \in Instances :
                (/\ issued[k] # <<>>
                 /\ issued[j] # <<>>
                 /\ issued[k][1].prefix = issued[j][1].prefix
                 /\ issued[k][1].timestamp = issued[j][1].timestamp) =>
                    issued[k][1].id = issued[j][1].id)
    /\ [][last'.op = "generate_workflow_id" =>
             \A j \in Instances \ {last'.instance} :
                workflow_counter'[j] = workflow_counter[j]]_vars

\* C30 witness: an instance that had made calls was constructed again, and
\* its first call then returned the id the other instance returned for its
\* first call.
C30_Witness ==
    /\ last.op = "generate_workflow_id"
    /\ last.instance = 2
    /\ Len(issued[2]) = 1
    /\ Len(issued[1]) = 2
    /\ issued[1][1].id = last.ret

\* C31: from_dict(c.to_dict()) is c, to_dict gives status as its string tag;
\* from_dict of a map without the error and output_data keys gives a record
\* with both None; and from_dict of a map whose status is not one of the five
\* tags raises ValueError and gives no record.
C31_DictRoundTrip ==
    /\ last.op = "round_trip" =>
          /\ last.ret = last.cp
          /\ to_dict(last.cp)["status"] = StatusValue(last.cp.status)
    /\ (/\ last.op = "from_dict"
        /\ last.data["status"] \in StatusTags
        /\ {"error", "output_data"} \cap DOMAIN last.data = {}) =>
          /\ last.ret.error = None
          /\ last.ret.output_data = None
          /\ last.ret.status = StatusOfValue(last.data["status"])
    /\ (last.op = "from_dict" /\ last.data["status"] \notin StatusTags) =>
          last.ret = ValueError

\* C31 witness: a FAILED checkpoint with an error came back from the round
\* trip after the clock had advanced.
C31_Witness ==
    /\ last.op = "round_trip"
    /\ last.cp.status = "FAILED"
    /\ last.cp.error = Str("boom")
    /\ now > last.cp.created_at
    /\ last.ret = last.cp

\* C31 witness of the rejection: the member's name is not a tag.
C31_WitnessRejected ==
    /\ last.op = "from_dict"
    /\ last.data["status"] = "PENDING"
    /\ last.ret = ValueError

\* what a load returns for a record that a save wrote as c
StoredAs(c) == IF backend = "memory" THEN c ELSE row_to_checkpoint(checkpoint_row(c))

\* no thread is inside a call
AllIdle == \A t \in Threads : threads[t].pc = "idle"

\* C32: when the calls of all threads have returned, the stored record of
\* every id is, field for field, the record that the save serialized last
\* for that id wrote; on the SQLite backend the stored row is at every moment
\* the row one save wrote, never a mixture of two.
C32_LastWriteWins ==
    /\ AllIdle =>
          /\ StoredIds = DOMAIN saved
          /\ \A id \in StoredIds : BackendLoad(id) = StoredAs(saved[id])
    /\ backend = "sqlite" =>
          \A id \in DOMAIN db.disk :
             /\ id \in DOMAIN saved
             /\ db.disk[id] = checkpoint_row(saved[id])

\* C32 witness: two threads wrote the same id through two handles, one a
\* complete and then the other a fail; the stored record is the failed one,
\* with the error and without the output of the other writer.
C32_Witness ==
    /\ AllIdle
    /\ last.op = "checkpoint_failed"
    /\ last.ref = 2
    /\ last.thread = 2
    /\ heap[1].id = heap[2].id
    /\ heap[1].status = "COMPLETED"
    /\ heap[1].output_data # None
    /\ BackendLoad(heap[2].id).status = "FAILED"
    /\ BackendLoad(heap[2].id).error = Str("boom")
    /\ BackendLoad(heap[2].id).output_data = None

\* C32 witness of the overlap: both threads have assigned the fields of their
\* own handle of the same id and neither save has run yet.
C32_WitnessOverlap ==
    /\ threads[1].pc = "save"
    /\ threads[2].pc = "save"
    /\ threads[1].ref # threads[2].ref
    /\ heap[1].id = heap[2].id
    /\ heap[threads[1].ref].status = "COMPLETED"
    /\ heap[threads[2].ref].status = "FAILED"

\* the fields complete, fail and mark_recovered assign before they save
Assigned(cp) == <<cp.status, cp.output_data, cp.error>>

\* C33: on the memory backend a load, a list or a get_incomplete_workflows
\* returns, for every record, the status, output_data and error that the last
\* save of its id stored, never a value a running complete, fail or
\* mark_recovered has assigned and not saved yet.
C33_ReadsSeeSavedOnly ==
    /\ (last.op = "load" /\ last.ret # None) =>
          Assigned(last.ret) = Assigned(saved[last.ret.id])
    /\ last.op = "list_workflow_checkpoints" =>
          \A k \in 1..Len(last.ret) :
             Assigned(last.ret[k]) = Assigned(saved[last.ret[k].id])
    /\ last.op = "get_incomplete_workflows" =>
          last.ret = {saved[id].workflow_id : id \in
                         {j \in DOMAIN saved : saved[j].status = "IN_PROGRESS"}}

\* the threads inside a with statement
InWith == {t \in Threads : threads[t].pc \in {"locked", "release"}}

StoredOf(w) ==
    [id \in {k \in StoredIds : BackendLoad(k).workflow_id = w} |-> BackendLoad(id)]

\* the step is a statement of a call of thread t
ActedBy(t) == threads'[t] # threads[t] \/ (last' # last /\ last'.thread = t)

\* C35: no statement of a start, complete, fail, mark_recovered or
\* cleanup_workflow call of the thread that drives one workflow changes,
\* adds or removes a stored record of the other workflow, whatever the other
\* thread is in the middle of.
C35_OtherWorkflowsUntouched ==
    [][\A t \in 1..2 :
          ActedBy(t) =>
             \A w \in Workflows \ {WorkflowOf(t)} : StoredOf(w)' = StoredOf(w)]_vars

\* C35 witness: thread 1 has cleaned up "wa", which had a record, while
\* thread 2 is between the assignments and the save of a complete of "wb",
\* whose record is still stored.
C35_Witness ==
    /\ last.op = "cleanup_workflow"
    /\ last.thread = 1
    /\ last.ret = 1
    /\ threads[2].op = "checkpoint_complete"
    /\ threads[2].pc = "save"
    /\ DOMAIN StoredOf("wb") # {}
    /\ DOMAIN StoredOf("wa") = {}

Queries == {"get_recovery_point", "list_checkpoints", "get_incomplete_workflows"}

\* C36: get_recovery_point, list_checkpoints and get_incomplete_workflows
\* change no stored record (status and updated_at included) and no other
\* state of the Checkpointer, in every recovery mode; and as long as no
\* write has been made since a query returned, the same query returns what
\* it returned.
C36_QueriesReadOnly ==
    /\ [][(last'.op \in Queries /\ now' = now) =>
             /\ Stored' = Stored
             /\ UNCHANGED <<backend, recovery_mode, heap, allocs, checkpoints, db, saved>>]_vars
    /\ [](/\ last.op = "get_recovery_point"
                => last.ret = get_recovery_point(last.workflow_id)
          /\ last.op = "list_checkpoints" => last.ret = BackendList(last.workflow_id)
          /\ last.op = "get_incomplete_workflows" => last.ret = BackendGetIncomplete)

\* C36 witness: in mode RESTART_TASK, get_recovery_point has returned a
\* FAILED record that was stored at an earlier time than now, and the record
\* is still stored with that status and that updated_at.
C36_Witness ==
    /\ last.op = "get_recovery_point"
    /\ recovery_mode = "RESTART_TASK"
    /\ last.ret # None
    /\ last.ret.status = "FAILED"
    /\ last.ret.updated_at < now
    /\ BackendLoad(last.ret.id) = last.ret

\* C36 witness of the two other queries: list_checkpoints has returned two
\* records
C36_WitnessList ==
    /\ last.op = "list_checkpoints"
    /\ Len(last.ret) = 2
    /\ now > 0

\* C37: the workflow ids returned by calls of generate_workflow_id made from
\* different threads on one Checkpointer are pairwise distinct, and each
\* call returns a counter value of its own.
C37_ConcurrentIdsDistinct ==
    \A i, j \in 1..Len(issued[1]) :
        i # j => /\ issued[1][i].id # issued[1][j].id
                 /\ issued[1][i].counter # issued[1][j].counter

\* the status each call on a handle assigns
StatusAfter(op) ==
    CASE op = "checkpoint_complete" -> "COMPLETED"
      [] op = "checkpoint_failed" -> "FAILED"
      [] op = "mark_recovered" -> "RECOVERED"

\* C38: after complete, fail or mark_recovered on a handle, a record is
\* stored under the handle's id with the handle's workflow_id, step_index,
\* step_name, input_data, metadata and created_at and with the status the
\* call assigns, whether a record with that id was stored before the call
\* (the handle's own or one of a later start) or none was.
C38_StaleHandleUpserts ==
    last.op \in HandleOps =>
        LET h == last.handle
            r == BackendLoad(h.id)
        IN  /\ r # None
            /\ r.workflow_id = h.workflow_id
            /\ r.step_index = h.step_index
            /\ r.step_name = h.step_name
            /\ r.input_data = h.input_data
            /\ r.metadata = h.metadata
            /\ r.created_at = h.created_at
            /\ r.status = StatusAfter(last.op)

\* C38 witness: a failed call on a handle whose record had been removed by
\* cleanup_workflow has stored a record again.
C38_Witness ==
    /\ last.op = "checkpoint_failed"
    /\ last.before = None
    /\ BackendLoad(last.handle.id) # None

\* C38 witness of the discarded attempt: complete on the handle of the first
\* start, made when the record of a later start with another step_name and a
\* later created_at was stored, has replaced that record.
C38_WitnessDiscard ==
    /\ last.op = "checkpoint_complete"
    /\ last.before # None
    /\ last.before.created_at > last.handle.created_at
    /\ last.before.step_name # last.handle.step_name
    /\ BackendLoad(last.handle.id).step_name = last.handle.step_name
    /\ BackendLoad(last.handle.id).created_at = last.handle.created_at

\* C39: a RECOVERED record counts as finished in every query.  A workflow
\* whose records are all COMPLETED, FAILED or RECOVERED is not in the result
\* of get_incomplete_workflows; get_recovery_point in mode RESTART_TASK
\* returns a RECOVERED record only when no record of the workflow is FAILED
\* or IN_PROGRESS, and then it is the record of the greatest step_index; in
\* mode SKIP_FAILED it never returns a RECOVERED record.
C39_RecoveredIsFinished ==
    /\ last.op = "get_incomplete_workflows" =>
          \A w \in Workflows :
              (\A r \in RecordsOf(w) : r.status \in {"COMPLETED", "FAILED", "RECOVERED"})
                 => w \notin last.ret
    /\ (/\ last.op = "get_recovery_point"
        /\ recovery_mode = "RESTART_TASK"
        /\ last.ret # None
        /\ last.ret.status = "RECOVERED")
          => /\ \A r \in RecordsOf(last.workflow_id) :
                   r.status \notin {"FAILED", "IN_PROGRESS"}
             /\ last.ret = Greatest(RecordsOf(last.workflow_id))
    /\ (/\ last.op = "get_recovery_point"
        /\ recovery_mode = "SKIP_FAILED"
        /\ last.ret # None)
          => last.ret.status # "RECOVERED"

\* C39 witness: in mode RESTART_TASK get_recovery_point has returned the
\* RECOVERED record of step 1 by the fallback, step 0 being COMPLETED.
C39_Witness ==
    /\ last.op = "get_recovery_point"
    /\ recovery_mode = "RESTART_TASK"
    /\ last.ret # None
    /\ last.ret.status = "RECOVERED"
    /\ last.ret.step_index = 1
    /\ \E r \in RecordsOf("wa") : r.step_index = 0 /\ r.status = "COMPLETED"

\* C39 witness of get_incomplete_workflows: "wa", with a RECOVERED and a
\* FAILED record, is not returned
C39_WitnessIncomplete ==
    /\ last.op = "get_incomplete_workflows"
    /\ "wa" \notin last.ret
    /\ \E r \in RecordsOf("wa") : r.status = "RECOVERED"
    /\ \E r \in RecordsOf("wa") : r.status = "FAILED"

\* C39 witness of SKIP_FAILED: the scan has passed over the RECOVERED record
\* of step 1 and returned the COMPLETED record of step 0
C39_WitnessSkip ==
    /\ last.op = "get_recovery_point"
    /\ recovery_mode = "SKIP_FAILED"
    /\ last.ret # None
    /\ last.ret.step_index = 0
    /\ \E r \in RecordsOf("wa") : r.step_index = 1 /\ r.status = "RECOVERED"

====
